---- MODULE Spec2Model ----
(***************************************************************************)
(* Interactive terminal list controller of vercel-enhanced-cli             *)
(* (promptProjectsWithDynamicUpdates in src/ui/prompts.ts), the command    *)
(* orchestrator that drives it (projectsCommand in commands/projects.ts)   *)
(* and the search filter it applies (filterProjects).                      *)
(*                                                                         *)
(* Text is a sequence of one-character strings.  Control bytes carry their *)
(* ASCII names: ESC = 0x1b, ETX = 0x03 (Ctrl+C), DC2 = 0x12 (Ctrl+R),      *)
(* DC3 = 0x13 (Ctrl+S), EOT = 0x04 (Ctrl+D), SOH = 0x01 (Ctrl+A),          *)
(* CR = 0x0d, LF = 0x0a, DEL = 0x7f, BS = 0x08, TAB = 0x09.                *)
(***************************************************************************)
EXTENDS Integers, Sequences, FiniteSets, TLC

\* ------------------------------------------------------------------ bounds
\* number of project ids the environment draws lists from
NumIds == 3
\* longest search query the keyboard is allowed to build
MaxQuery == 2
\* number of controller invocations the orchestrator loop is followed for
MaxRounds == 2

\* most urls opened from the detail view that are followed
MaxOpens == 1

\* most detail fetches outstanding at once
MaxFetches == 3
\* longest time the clock is followed for, in ticks
MaxTicks == 2
\* length of a tick of the clock in milliseconds
TickMs == 150000

\* rows per page (the orchestrator passes 10; the model pages by 2)
pageSize == 2

Ids == 1..NumIds

Min(a, b) == IF a < b THEN a ELSE b
Max(a, b) == IF a > b THEN a ELSE b

\* ------------------------------------------------------------------ text
ControlChars == {"ESC", "ETX", "DC2", "DC3", "EOT", "SOH", "CR", "LF", "DEL", "BS", "TAB"}

\* charCodeAt(0) >= 32 && charCodeAt(0) <= 126
IsPrintable(c) == c \notin ControlChars

\* String.prototype.toLowerCase, one character
LowerChar(c) ==
  CASE c = "A" -> "a" [] c = "B" -> "b" [] c = "C" -> "c" [] c = "D" -> "d"
    [] c = "E" -> "e" [] c = "F" -> "f" [] c = "H" -> "h" [] c = "I" -> "i"
    [] c = "L" -> "l" [] c = "N" -> "n" [] c = "R" -> "r" [] c = "U" -> "u"
    [] c = "Y" -> "y" [] c = "Z" -> "z" [] OTHER -> c

toLowerCase(s) == [i \in 1..Len(s) |-> LowerChar(s[i])]

\* String.prototype.trim: strip leading and trailing blanks
RECURSIVE trimStart(_)
trimStart(s) == IF s # <<>> /\ Head(s) = " " THEN trimStart(Tail(s)) ELSE s

RECURSIVE trimEnd(_)
trimEnd(s) ==
  IF s # <<>> /\ s[Len(s)] = " " THEN trimEnd(SubSeq(s, 1, Len(s) - 1)) ELSE s

trim(s) == trimEnd(trimStart(s))

\* String.prototype.includes: t occurs in s as a contiguous substring
includes(s, t) ==
  \E k \in 0..(Len(s) - Len(t)) : \A j \in 1..Len(t) : s[k + j] = t[j]

Str(w) ==
  CASE w = "never" -> <<"n", "e", "v", "e", "r">>
    [] w = "READY" -> <<"R", "E", "A", "D", "Y">>
    [] w = "ERROR" -> <<"E", "R", "R", "O", "R">>
    [] w = "" -> <<>>
    [] w = "me" -> <<"m", "e">>
    [] w = "https://vercel.com/" ->
         <<"h", "t", "t", "p", "s", ":", "/", "/", "v", "e", "r", "c", "e", "l",
           ".", "c", "o", "m", "/">>
    [] w = "/settings" -> <<"/", "s", "e", "t", "t", "i", "n", "g", "s">>
    [] w = "/deployments" ->
         <<"/", "d", "e", "p", "l", "o", "y", "m", "e", "n", "t", "s">>
    [] w = "/logs" -> <<"/", "l", "o", "g", "s">>

\* ------------------------------------------------------------------ records
\* ProjectWithMetadata: a project record with its optional last deployment.
\* An absent string (undefined) is the empty text, which JavaScript also
\* treats as false.
Project(id, name, loading, hasDep, state, hasCreator, username, email, uid) ==
  [id |-> id, name |-> name, deploymentLoading |-> loading,
   hasDeployment |-> hasDep, state |-> state, hasCreator |-> hasCreator,
   username |-> username, email |-> email, uid |-> uid]

\* a project whose deployment has not been fetched yet
Fresh(id, name) == Project(id, name, TRUE, FALSE, <<>>, FALSE, <<>>, <<>>, <<>>)

\* formatProjectOption: the display row of a record (name and deployment column)
formatProjectOption(p) ==
  [txt |-> p.name,
   dep |-> IF p.deploymentLoading THEN Str("")
           ELSE IF p.hasDeployment THEN toLowerCase(p.state)
           ELSE Str("never")]

\* ProjectOption {name, value, description}
Option(p) == [name |-> formatProjectOption(p), value |-> p.id, description |-> p.name]

\* Array.prototype.findIndex on the option ids, 0-based, -1 when absent
findIndex(list, id) ==
  IF \E i \in 1..Len(list) : list[i].value = id
  THEN (CHOOSE i \in 1..Len(list) :
          /\ list[i].value = id
          /\ \A j \in 1..(i - 1) : list[j].value # id) - 1
  ELSE -1

\* ------------------------------------------------------------------ state
VARIABLES
  initialProjects,        \* argument: the option list the prompt starts with
  allProjects,            \* argument: backing records used for searching
  wasRawMode,             \* process.stdin.isRaw when the prompt started
  projects,               \* options currently displayed
  selected,               \* set of selected ids
  cursorIndex,            \* 0-based index of the cursor row
  startIndex,             \* 0-based index of the first visible row
  escapeSequence,         \* bytes buffered from an incomplete escape sequence
  searchQuery,            \* current search text
  isDetailViewActive,
  detailViewActionIndex,
  detailViewProjectId,    \* 0 stands for null
  isSettingsMenuActive,
  isInitialized,          \* render(): first frame drawn
  lastViewState,          \* render(): view drawn by the last frame
  cursorVisible,          \* terminal cursor shown
  listening,              \* handleData registered on stdin "data"
  rawMode,                \* process.stdin.isRaw
  paused,                 \* process.stdin paused
  settled,                \* promise state: pending / resolved / rejected
  result,                 \* value the promise settled with
  threw,                  \* a handler threw (TypeError on an undefined row)
  lastEvent,              \* history: kind of the event delivered last, where recorded
  fetchDetailData,        \* argument: whether the optional callback was passed
  detailViewData,         \* detail data shown (present, loading, data)
  prefetchInFlight,       \* ids with a prefetch outstanding in this invocation
  fetches,                \* fetchDetailData promises not yet settled
  cache,                  \* utils/cache: the process-wide Map, key -> entry
  now,                    \* Date.now()
  lastGet,                \* history: what the last direct getCached returned
  written,                \* history: per key, the last setCache still in force
  scopeSlug,              \* argument: scope slug for urls, empty when not passed
  opened                  \* urls handed to open(), in order

\* state of projectsCommand, the caller of the prompt
VARIABLES
  pc,                     \* where projectsCommand stands in its loop
  scopeTeamId,            \* 0 stands for null (personal scope)
  remote,                 \* per team, the ids of the projects the API holds
  listedProjects,         \* `projects`: ids from api.listProjects, sorted
  fetchPending,           \* ids whose listDeployments call is outstanding
  selectedProjects,       \* ids the delete loop has still to visit
  deletedCount,           \* results.success.length
  confirmed,              \* answer of confirmAction for the current batch
  deleteCalls,            \* per id, how often api.deleteProject was called
  rounds                  \* prompts started so far

orchVars ==
  <<pc, scopeTeamId, remote, listedProjects, fetchPending, selectedProjects,
    deletedCount, confirmed, deleteCalls, rounds>>

\* the variables of one invocation's closure and of its terminal
localVars ==
  <<projects, selected, cursorIndex, startIndex, escapeSequence, searchQuery,
    isDetailViewActive, detailViewActionIndex, detailViewProjectId,
    isSettingsMenuActive, isInitialized, lastViewState, cursorVisible,
    listening, rawMode, paused, settled, result, threw,
    detailViewData, prefetchInFlight>>

ctlVars == <<localVars, fetches, cache, opened>>

argVars == <<initialProjects, allProjects, wasRawMode, fetchDetailData, scopeSlug>>

\* the clock and the history of direct cache reads
envVars == <<now, lastGet, written>>

\* the closure state of one invocation as a record
S ==
  [projects |-> projects, selected |-> selected, cursorIndex |-> cursorIndex,
   startIndex |-> startIndex, escapeSequence |-> escapeSequence,
   searchQuery |-> searchQuery, isDetailViewActive |-> isDetailViewActive,
   detailViewActionIndex |-> detailViewActionIndex,
   detailViewProjectId |-> detailViewProjectId,
   isSettingsMenuActive |-> isSettingsMenuActive,
   isInitialized |-> isInitialized, lastViewState |-> lastViewState,
   cursorVisible |-> cursorVisible, listening |-> listening,
   rawMode |-> rawMode, paused |-> paused, settled |-> settled,
   result |-> result, threw |-> threw, detailViewData |-> detailViewData,
   prefetchInFlight |-> prefetchInFlight, fetches |-> fetches, cache |-> cache,
   opened |-> opened]

Commit(r) ==
  /\ projects' = r.projects
  /\ selected' = r.selected
  /\ cursorIndex' = r.cursorIndex
  /\ startIndex' = r.startIndex
  /\ escapeSequence' = r.escapeSequence
  /\ searchQuery' = r.searchQuery
  /\ isDetailViewActive' = r.isDetailViewActive
  /\ detailViewActionIndex' = r.detailViewActionIndex
  /\ detailViewProjectId' = r.detailViewProjectId
  /\ isSettingsMenuActive' = r.isSettingsMenuActive
  /\ isInitialized' = r.isInitialized
  /\ lastViewState' = r.lastViewState
  /\ cursorVisible' = r.cursorVisible
  /\ listening' = r.listening
  /\ rawMode' = r.rawMode
  /\ paused' = r.paused
  /\ settled' = r.settled
  /\ result' = r.result
  /\ threw' = r.threw
  /\ detailViewData' = r.detailViewData
  /\ prefetchInFlight' = r.prefetchInFlight
  /\ fetches' = r.fetches
  /\ cache' = r.cache
  /\ opened' = r.opened

\* ------------------------------------------------------------------ filter
\* creator.username?.toLowerCase() || creator.email?.toLowerCase() ||
\* creator.uid?.toLowerCase() || ""
creatorName(p) ==
  IF p.username # <<>> THEN toLowerCase(p.username)
  ELSE IF p.email # <<>> THEN toLowerCase(p.email)
  ELSE toLowerCase(p.uid)

\* variant: only the project name is searched
matchesSearchByName(p, searchTerm) == includes(toLowerCase(p.name), searchTerm)

\* the predicate of allProjects.filter(...) for a lower-cased, trimmed term
matchesSearch(p, searchTerm) ==
  LET nameMatch == includes(toLowerCase(p.name), searchTerm)
      stateMatch ==
        IF p.hasDeployment /\ p.state # <<>>
        THEN includes(toLowerCase(p.state), searchTerm)
        ELSE includes(Str("never"), searchTerm)
      creatorMatch ==
        IF p.hasDeployment /\ p.hasCreator
        THEN includes(creatorName(p), searchTerm)
        ELSE FALSE
  IN nameMatch \/ stateMatch \/ creatorMatch

filterProjects(query) ==
  IF trim(query) = <<>> \/ Len(allProjects) = 0
  THEN initialProjects
  ELSE LET searchTerm == trim(toLowerCase(query))
           filtered == SelectSeq(allProjects, LAMBDA p : matchesSearch(p, searchTerm))
       IN [i \in 1..Len(filtered) |-> Option(filtered[i])]

\* ------------------------------------------------------------------ cache
\* utils/cache.ts; a cache is a function from the keys present to entries
\* {data, expiresAt}; data 0 stands for null
DEFAULT_TTL == 300000

EmptyCache == [k \in {} |-> 0]

\* String.prototype.startsWith
startsWith(s, t) == Len(t) <= Len(s) /\ SubSeq(s, 1, Len(t)) = t

\* Map.prototype.delete
mapDelete(c, key) == [k \in DOMAIN c \ {key} |-> c[k]]

\* variant: an expired entry is still returned
getCachedIgnoringExpiry(c, key) ==
  IF key \notin DOMAIN c THEN [data |-> 0, cache |-> c]
  ELSE [data |-> c[key].data, cache |-> c]

\* getCached: the value returned and the cache it leaves (an expired entry
\* is deleted by the read)
getCached(c, key) ==
  IF key \notin DOMAIN c THEN [data |-> 0, cache |-> c]
  ELSE IF now > c[key].expiresAt THEN [data |-> 0, cache |-> mapDelete(c, key)]
  ELSE [data |-> c[key].data, cache |-> c]

setCache(c, key, data, ttlMs) ==
  [k \in DOMAIN c \cup {key} |->
     IF k = key THEN [data |-> data, expiresAt |-> now + ttlMs] ELSE c[k]]

invalidateCache(c, key) == mapDelete(c, key)

\* variant: every entry is removed, whatever its key
invalidateCachePrefixAll(c, prefix) == EmptyCache

invalidateCachePrefix(c, prefix) ==
  [k \in {j \in DOMAIN c : ~startsWith(j, prefix)} |-> c[k]]

CACHE_KEY_DETAIL_VIEW ==
  <<"d", "e", "t", "a", "i", "l", "-", "v", "i", "e", "w", ":">>

ProjectPrefix == <<"p", "r", "o", "j", "e", "c", "t", "-">>

\* the text of a project id
IdText(i) == <<<<"1", "2", "3", "4", "5", "6", "7", "8", "9">>[i]>>

\* `${CACHE_KEY_DETAIL_VIEW}${projectId}`
DetailKey(id) == CACHE_KEY_DETAIL_VIEW \o IdText(id)

\* detailViewData: null, {domains: [], loading: true}, or loaded data
NoDetail == [present |-> FALSE, loading |-> FALSE, data |-> 0]
DetailLoading == [present |-> TRUE, loading |-> TRUE, data |-> 0]
DetailLoaded(data) == [present |-> TRUE, loading |-> FALSE, data |-> data]

\* ------------------------------------------------------------------ render
currentViewState(s) ==
  IF s.isSettingsMenuActive THEN "settings"
  ELSE IF s.isDetailViewActive THEN "detail"
  ELSE "projects"

\* Array.prototype.slice(start, end): the 0-based indices it copies
sliceFrom(len, start) == IF start < 0 THEN Max(len + start, 0) ELSE Min(start, len)

sliceCount(len, start, end) ==
  Max(sliceFrom(len, end) - sliceFrom(len, start), 0)

\* the row loop reads projects[startIndex + i].value for every copied row;
\* an index outside the array yields undefined and the read throws
renderRowsThrow(s) ==
  LET len == Len(s.projects)
      endIndex == Min(s.startIndex + pageSize, len)
      n == sliceCount(len, s.startIndex, endIndex)
  IN \E i \in 0..(n - 1) : (s.startIndex + i) \notin 0..(len - 1)

render(s) ==
  LET cur == currentViewState(s)
      s1 == IF ~s.isInitialized \/ cur # s.lastViewState
            THEN [s EXCEPT !.isInitialized = TRUE, !.lastViewState = cur,
                           !.cursorVisible = FALSE]
            ELSE s
  IN IF cur = "projects" /\ renderRowsThrow(s1)
     THEN [s1 EXCEPT !.threw = TRUE]
     ELSE s1

\* ------------------------------------------------------------------ prefetch
\* a fetchDetailData promise: the project, who awaits it, the invocation that
\* started it and a serial number
Fetch(id, kind, n) == [id |-> id, kind |-> kind, prompt |-> rounds, n |-> n]

\* the data a fetch answers with: it tells the project it is about and the
\* prompt whose fetch brought it (0 is no data)
fetched(f) == f.prompt * (NumIds + 1) + f.id
projectOf(data) == data % (NumIds + 1)
promptOf(data) == data \div (NumIds + 1)

\* the first serial number no outstanding fetch of the project carries
serial(fs, id) ==
  CHOOSE n \in 0..Cardinality(fs) :
    /\ \A f \in fs : f.id = id => f.n # n
    /\ \A m \in 0..(n - 1) : \E f \in fs : f.id = id /\ f.n = m

\* ids of the rows projects.slice(startIndex, endIndex)
visibleProjectIds(s) ==
  LET len == Len(s.projects)
      endIndex == Min(s.startIndex + pageSize, len)
      from == sliceFrom(len, s.startIndex)
      n == sliceCount(len, s.startIndex, endIndex)
  IN {s.projects[from + i].value : i \in 1..n}

\* the cache once getCached has read every key of a set
readAll(c, keys) ==
  [k \in {j \in DOMAIN c : ~(j \in keys /\ now > c[j].expiresAt)} |-> c[k]]

\* variant: the in-flight set is not consulted
prefetchVisibleProjectsUnguarded(s) ==
  IF s.threw \/ ~fetchDetailData THEN s
  ELSE LET visible == visibleProjectIds(s)
           c1 == readAll(s.cache, {DetailKey(id) : id \in visible})
           fresh == {id \in visible : DetailKey(id) \notin DOMAIN c1}
       IN [s EXCEPT !.cache = c1,
                    !.prefetchInFlight = @ \cup fresh,
                    !.fetches = @ \cup {Fetch(id, "prefetch",
                                     serial(s.fetches, id))
                                     : id \in fresh}]

\* prefetchVisibleProjects: a fetch for every visible id that is neither
\* cached nor in flight; nothing after a handler has thrown
prefetchVisibleProjects(s) ==
  IF s.threw \/ ~fetchDetailData THEN s
  ELSE LET visible == visibleProjectIds(s)
           c1 == readAll(s.cache, {DetailKey(id) : id \in visible})
           fresh == {id \in visible :
                       DetailKey(id) \notin DOMAIN c1 /\ id \notin s.prefetchInFlight}
       IN [s EXCEPT !.cache = c1,
                    !.prefetchInFlight = @ \cup fresh,
                    !.fetches = @ \cup {Fetch(id, "prefetch",
                                     serial(s.fetches, id))
                                     : id \in fresh}]

\* prefetchVisibleProjects() when the page start moved
prefetchIfMoved(s, prevStartIndex) ==
  IF s.startIndex # prevStartIndex THEN prefetchVisibleProjects(s) ELSE s

\* ------------------------------------------------------------------ updates
\* projects[cursorIndex].value when the guard of the conditional passes;
\* a negative cursorIndex passes the guard and reads an undefined row
cursorGuard(s) == Len(s.projects) > 0 /\ s.cursorIndex < Len(s.projects)

cursorReadThrows(s) == cursorGuard(s) /\ s.cursorIndex < 0

currentProjectId(s) ==
  IF cursorGuard(s) THEN s.projects[s.cursorIndex + 1].value ELSE 0

\* the cursor row after an update: the old row's id when it is still listed,
\* else the old index clamped to the new length
updatedCursor(s, newProjects) ==
  LET id == currentProjectId(s)
      newIndex == findIndex(newProjects, id)
  IN IF id # 0 /\ newIndex # -1 THEN newIndex
     ELSE Min(s.cursorIndex, Len(newProjects) - 1)

\* variant: the cursor index is kept and clamped, never looked up by id
applyUpdateKeepIndex(s, newProjects) ==
  LET cur == Min(s.cursorIndex, Len(newProjects) - 1)
      start == IF cur < s.startIndex THEN Max(0, cur)
               ELSE IF cur >= s.startIndex + pageSize THEN Max(0, cur - pageSize + 1)
               ELSE s.startIndex
  IN render([s EXCEPT !.projects = newProjects, !.cursorIndex = cur,
                      !.startIndex = start])

\* updateProjects below its search guard
applyUpdate(s, newProjects) ==
  IF cursorReadThrows(s) THEN [s EXCEPT !.threw = TRUE]
  ELSE
    LET cur == updatedCursor(s, newProjects)
        start == IF cur < s.startIndex THEN Max(0, cur)
                 ELSE IF cur >= s.startIndex + pageSize THEN Max(0, cur - pageSize + 1)
                 ELSE s.startIndex
    IN prefetchIfMoved(render([s EXCEPT !.projects = newProjects, !.cursorIndex = cur,
                                        !.startIndex = start]),
                       s.startIndex)

\* variant: the update is applied whatever the search query
updateProjectsUnguarded(s, newProjects) == applyUpdate(s, newProjects)

updateProjects(s, newProjects) ==
  IF s.searchQuery # <<>> THEN s ELSE applyUpdate(s, newProjects)

\* variant: the cursor keeps its index, clamped to the filtered list
applySearchFilterKeepIndex(s) ==
  LET filtered == filterProjects(s.searchQuery)
      cur == Max(0, Min(s.cursorIndex, Len(filtered) - 1))
  IN prefetchVisibleProjects(render([s EXCEPT !.projects = filtered,
                                              !.cursorIndex = cur,
                                              !.startIndex = 0]))

applySearchFilter(s) ==
  IF cursorReadThrows(s) THEN [s EXCEPT !.threw = TRUE]
  ELSE
    LET filtered == filterProjects(s.searchQuery)
        id == currentProjectId(s)
        newIndex == findIndex(filtered, id)
        cur == IF id # 0 /\ Len(filtered) > 0 /\ newIndex # -1 THEN newIndex ELSE 0
    IN prefetchVisibleProjects(render([s EXCEPT !.projects = filtered,
                                                !.cursorIndex = cur,
                                                !.startIndex = 0]))

\* ------------------------------------------------------------------ exits
NoResult == [projectIds |-> {}, action |-> "pending", error |-> "none"]

\* removeListener("data", handleData); setRawMode(wasRawMode || false); pause()
teardown(s) ==
  [s EXCEPT !.listening = FALSE, !.rawMode = wasRawMode, !.paused = TRUE]

\* restoreScreen(): showCursor()
restoreScreen(s) == [s EXCEPT !.cursorVisible = TRUE]

\* a promise settles once: later resolve and reject calls are ignored
resolve(s, ids, action) ==
  IF s.settled = "pending"
  THEN [s EXCEPT !.settled = "resolved",
                 !.result = [projectIds |-> ids, action |-> action, error |-> "none"]]
  ELSE s

reject(s, err) ==
  IF s.settled = "pending"
  THEN [s EXCEPT !.settled = "rejected",
                 !.result = [projectIds |-> {}, action |-> "rejected", error |-> err]]
  ELSE s

\* ------------------------------------------------------------------ keys
resetEscape(s) == [s EXCEPT !.escapeSequence = <<>>]

exitDetailView(s) ==
  render([s EXCEPT !.isDetailViewActive = FALSE, !.detailViewData = NoDetail,
                   !.detailViewProjectId = 0, !.detailViewActionIndex = 0])

\* variant: clearing the filter also clears the selection
clearSearchFilterAndSelection(s) ==
  prefetchVisibleProjects(
    render([s EXCEPT !.searchQuery = <<>>, !.projects = initialProjects,
                     !.cursorIndex = 0, !.startIndex = 0, !.selected = {}]))

clearSearchFilter(s) ==
  prefetchVisibleProjects(
    render([s EXCEPT !.searchQuery = <<>>, !.projects = initialProjects,
                     !.cursorIndex = 0, !.startIndex = 0]))

\* the right-arrow handler once the detail view is drawn with loading data:
\* cached data is shown at once, else a fetch is started
loadDetail(s, projectId) ==
  IF s.threw THEN s
  ELSE LET got == getCached(s.cache, DetailKey(projectId))
       IN IF got.data # 0
          THEN render([s EXCEPT !.cache = got.cache,
                                !.detailViewData = DetailLoaded(got.data)])
          ELSE IF fetchDetailData
          THEN [s EXCEPT !.cache = got.cache,
                         !.fetches = @ \cup {Fetch(projectId, "detail",
                                        serial(s.fetches, projectId))}]
          ELSE render([s EXCEPT !.cache = got.cache,
                                !.detailViewData = DetailLoaded(0)])

onLeftArrow(s) ==
  LET s0 == resetEscape(s)
  IN IF s0.isDetailViewActive THEN exitDetailView(s0)
     ELSE IF ~s0.isSettingsMenuActive /\ s0.searchQuery # <<>> THEN clearSearchFilter(s0)
     ELSE s0

\* variant: the right-arrow opens the detail view over the settings menu
onRightArrowInSettings(s) ==
  LET s0 == resetEscape(s)
  IN IF ~s0.isDetailViewActive /\ cursorGuard(s0)
     THEN IF cursorReadThrows(s0) THEN [s0 EXCEPT !.threw = TRUE]
          ELSE loadDetail(render([s0 EXCEPT !.isDetailViewActive = TRUE,
                                            !.detailViewProjectId = currentProjectId(s0),
                                            !.detailViewActionIndex = 0,
                                            !.detailViewData = DetailLoading]),
                          currentProjectId(s0))
     ELSE s0

onRightArrow(s) ==
  LET s0 == resetEscape(s)
  IN IF ~s0.isDetailViewActive /\ ~s0.isSettingsMenuActive /\ cursorGuard(s0)
     THEN IF cursorReadThrows(s0) THEN [s0 EXCEPT !.threw = TRUE]
          ELSE loadDetail(render([s0 EXCEPT !.isDetailViewActive = TRUE,
                                            !.detailViewProjectId = currentProjectId(s0),
                                            !.detailViewActionIndex = 0,
                                            !.detailViewData = DetailLoading]),
                          currentProjectId(s0))
     ELSE s0

onHome(s) ==
  LET s0 == resetEscape(s)
      start == Max(0, s0.startIndex - pageSize)
      cur == Min(start + pageSize - 1, Len(s0.projects) - 1)
  IN prefetchIfMoved(render([s0 EXCEPT !.startIndex = start, !.cursorIndex = cur]), s0.startIndex)

onEnd(s) ==
  LET s0 == resetEscape(s)
      start == Min(Len(s0.projects) - pageSize, s0.startIndex + pageSize)
      cur == Min(start + pageSize - 1, Len(s0.projects) - 1)
  IN prefetchIfMoved(render([s0 EXCEPT !.startIndex = start, !.cursorIndex = cur]), s0.startIndex)

onUpArrow(s) ==
  LET s0 == resetEscape(s)
      cur == Max(0, s0.cursorIndex - 1)
      start == IF cur < s0.startIndex THEN Max(0, s0.startIndex - pageSize)
               ELSE s0.startIndex
  IN prefetchIfMoved(render([s0 EXCEPT !.cursorIndex = cur, !.startIndex = start]), s0.startIndex)

\* variant: the down-arrow moves the cursor and leaves the page start
onDownArrowNoScroll(s) ==
  LET s0 == resetEscape(s)
      cur == Min(Len(s0.projects) - 1, s0.cursorIndex + 1)
  IN render([s0 EXCEPT !.cursorIndex = cur])

onDownArrow(s) ==
  LET s0 == resetEscape(s)
      cur == Min(Len(s0.projects) - 1, s0.cursorIndex + 1)
      start == IF cur >= s0.startIndex + pageSize
               THEN Min(Len(s0.projects) - pageSize, s0.startIndex + pageSize)
               ELSE s0.startIndex
  IN prefetchIfMoved(render([s0 EXCEPT !.cursorIndex = cur, !.startIndex = start]), s0.startIndex)

onCtrlC(s) == resolve(restoreScreen(teardown(s)), {}, "null")

\* variant: the change-team exit carries the selection
onChangeTeamWithSelection(s) ==
  resolve(restoreScreen(teardown(s)), s.selected, "change-team")

onChangeTeam(s) == resolve(restoreScreen(teardown(s)), {}, "change-team")

\* variant: the refresh exit leaves the cache as it is
onCtrlRKeepsCache(s) == resolve(restoreScreen(teardown(s)), {}, "refresh")

onCtrlR(s) ==
  LET s1 == restoreScreen(teardown(s))
      c1 == invalidateCachePrefix(s1.cache, ProjectPrefix)
      c2 == invalidateCachePrefix(c1, CACHE_KEY_DETAIL_VIEW)
  IN resolve([s1 EXCEPT !.cache = c2], {}, "refresh")

onCtrlS(s) == render([s EXCEPT !.isSettingsMenuActive = TRUE])

\* variant: the delete exit leaves the terminal in raw mode
onCtrlDKeepsRawMode(s) ==
  resolve(restoreScreen([s EXCEPT !.listening = FALSE, !.paused = TRUE]),
          s.selected, "delete")

\* variant: the delete exit leaves handleData registered
onCtrlDKeepsListener(s) ==
  resolve(restoreScreen([s EXCEPT !.rawMode = wasRawMode, !.paused = TRUE]),
          s.selected, "delete")

\* variant: the delete exit resolves without the selected ids
onCtrlDNoIds(s) == resolve(restoreScreen(teardown(s)), {}, "delete")

onCtrlD(s) == resolve(restoreScreen(teardown(s)), s.selected, "delete")

onSettingsKey(s, data) ==
  IF data = <<"ESC">> THEN render([s EXCEPT !.isSettingsMenuActive = FALSE])
  ELSE IF data = <<"1">> THEN onChangeTeam(s)
  ELSE s

\* the url suffix of the highlighted action
urlSuffix(index) ==
  CASE index = 1 -> Str("/settings")
    [] index = 2 -> Str("/deployments")
    [] index = 3 -> Str("/logs")
    [] OTHER -> Str("")

\* allProjects.find((p) => p.id === projectId)?.name, empty when not found
projectName(projectId) ==
  IF \E k \in 1..Len(allProjects) : allProjects[k].id = projectId
  THEN allProjects[CHOOSE k \in 1..Len(allProjects) :
                     /\ allProjects[k].id = projectId
                     /\ \A j \in 1..(k - 1) : allProjects[j].id # projectId].name
  ELSE <<>>

\* variant: enter always opens the project page
onDetailEnterNoSuffix(s) ==
  IF s.detailViewProjectId = 0 \/ scopeSlug = <<>> THEN s
  ELSE IF projectName(s.detailViewProjectId) = <<>> THEN s
  ELSE [s EXCEPT !.opened = Append(@, Str("https://vercel.com/") \o scopeSlug
                                        \o <<"/">> \o projectName(s.detailViewProjectId))]

\* enter in the detail view: the url of the highlighted action is handed to
\* open() and the view stays
onDetailEnter(s) ==
  IF s.detailViewProjectId = 0 \/ scopeSlug = <<>> THEN s
  ELSE IF projectName(s.detailViewProjectId) = <<>> THEN s
  ELSE [s EXCEPT !.opened = Append(@, Str("https://vercel.com/") \o scopeSlug
                                        \o <<"/">> \o projectName(s.detailViewProjectId)
                                        \o urlSuffix(s.detailViewActionIndex))]

\* variant: tab advances the highlighted action without wrapping
onDetailKeyNoWrap(s, data, fullData) ==
  IF data = <<"ESC">> /\ s.escapeSequence = <<>> THEN exitDetailView(s)
  ELSE IF data = <<"TAB">>
  THEN render([s EXCEPT !.detailViewActionIndex = s.detailViewActionIndex + 1])
  ELSE IF fullData = <<"ESC", "[", "Z">>
  THEN render([resetEscape(s) EXCEPT
                 !.detailViewActionIndex = (s.detailViewActionIndex - 1 + 4) % 4])
  ELSE IF data = <<"CR">> \/ data = <<"LF">> THEN onDetailEnter(s)
  ELSE s

onDetailKey(s, data, fullData) ==
  IF data = <<"ESC">> /\ s.escapeSequence = <<>> THEN exitDetailView(s)
  ELSE IF data = <<"TAB">>
  THEN render([s EXCEPT !.detailViewActionIndex = (s.detailViewActionIndex + 1) % 4])
  ELSE IF fullData = <<"ESC", "[", "Z">>
  THEN render([resetEscape(s) EXCEPT
                 !.detailViewActionIndex = (s.detailViewActionIndex - 1 + 4) % 4])
  ELSE IF data = <<"CR">> \/ data = <<"LF">> THEN onDetailEnter(s)
  ELSE s

onEnter(s) ==
  IF cursorGuard(s)
  THEN IF cursorReadThrows(s) THEN [s EXCEPT !.threw = TRUE]
       ELSE LET id == currentProjectId(s)
            IN render([s EXCEPT !.selected = IF id \in s.selected
                                             THEN s.selected \ {id}
                                             ELSE s.selected \cup {id}])
  ELSE s

\* variant: invert-all works on the selection alone and selects every
\* displayed id
onCtrlASelectsAll(s) ==
  LET shown == {s.projects[i].value : i \in 1..Len(s.projects)}
  IN render([s EXCEPT !.selected = s.selected \cup shown])

onCtrlA(s) ==
  LET shown == {s.projects[i].value : i \in 1..Len(s.projects)}
  IN render([s EXCEPT !.selected = (s.selected \ shown) \cup (shown \ s.selected)])

onBackspace(s) ==
  IF Len(s.searchQuery) > 0
  THEN applySearchFilter([s EXCEPT !.searchQuery = SubSeq(s.searchQuery, 1, Len(s.searchQuery) - 1)])
  ELSE s

onPrintable(s, data) ==
  applySearchFilter([s EXCEPT !.searchQuery = s.searchQuery \o data])

\* the part of handleData below the escape-sequence block; s.escapeSequence
\* is what that block left, fullData is the buffer joined with the chunk
handleKey(s, data, fullData) ==
  IF data = <<"ETX">> THEN onCtrlC(s)
  ELSE IF s.isSettingsMenuActive THEN onSettingsKey(s, data)
  ELSE IF data = <<"DC2">> /\ ~s.isDetailViewActive /\ ~s.isSettingsMenuActive THEN onCtrlR(s)
  ELSE IF data = <<"DC3">> /\ ~s.isDetailViewActive THEN onCtrlS(s)
  ELSE IF data = <<"ESC">> /\ s.escapeSequence = <<>> /\ s.isDetailViewActive
  THEN exitDetailView(s)
  ELSE IF data = <<"ESC">> /\ s.escapeSequence = <<>>
          /\ ~s.isSettingsMenuActive /\ s.searchQuery # <<>>
  THEN clearSearchFilter(s)
  ELSE IF data = <<"EOT">> /\ s.selected # {} THEN onCtrlD(s)
  ELSE IF s.isDetailViewActive THEN onDetailKey(s, data, fullData)
  ELSE IF data = <<"CR">> \/ data = <<"LF">> THEN onEnter(s)
  ELSE IF data = <<"SOH">> THEN onCtrlA(s)
  ELSE IF data = <<"DEL">> \/ data = <<"BS">> THEN onBackspace(s)
  ELSE IF Len(data) = 1 /\ IsPrintable(data[1]) /\ s.escapeSequence = <<>>
  THEN onPrintable(s, data)
  ELSE s

handleData(s, data) ==
  LET fullData == s.escapeSequence \o data
      n == Len(fullData)
  IN IF n >= 3 /\ fullData[1] = "ESC" /\ fullData[2] = "["
     THEN IF fullData[3] = "D" THEN onLeftArrow(s)
          ELSE IF fullData[3] = "C" THEN onRightArrow(s)
          ELSE IF s.isDetailViewActive \/ s.isSettingsMenuActive THEN resetEscape(s)
          ELSE IF fullData[3] = "H" \/ (n >= 5 /\ fullData[3] = "1" /\ fullData[4] = "~")
          THEN onHome(s)
          ELSE IF fullData[3] = "F" \/ (n >= 5 /\ fullData[3] = "4" /\ fullData[4] = "~")
          THEN onEnd(s)
          ELSE IF fullData[3] = "A" THEN onUpArrow(s)
          ELSE IF fullData[3] = "B" THEN onDownArrow(s)
          ELSE IF n < 5 /\ fullData[3] \in {"1", "4"}
          THEN [s EXCEPT !.escapeSequence = fullData]
          ELSE handleKey(resetEscape(s), data, fullData)
     ELSE IF n = 1 /\ fullData[1] = "ESC"
     THEN [s EXCEPT !.escapeSequence = fullData]
     ELSE handleKey(resetEscape(s), data, fullData)

\* process.stdin.on("error", ...)
onStdinError(s, err) == reject(restoreScreen(teardown(s)), err)

\* ------------------------------------------------------------------ inputs
\* project names used by the environment
NameOf(i) == [k \in 1..i |-> "a"] \o <<"1">>

\* the ids of a set in ascending order
RECURSIVE Ascending(_)
Ascending(ids) ==
  IF ids = {} THEN <<>>
  ELSE LET m == CHOOSE i \in ids : \A j \in ids : i <= j
       IN <<m>> \o Ascending(ids \ {m})

Reversed(seq) == [k \in 1..Len(seq) |-> seq[Len(seq) + 1 - k]]

\* id lists of the update callback: every sublist of the initial order
\* (projects dropped, the empty list included) and the whole list reordered
Arrangements == {Ascending(ids) : ids \in SUBSET Ids} \cup {Reversed(Ascending(Ids))}

\* the record of project i once its deployment fetch has answered (none found)
Loaded(i) == Project(i, NameOf(i), FALSE, FALSE, <<>>, FALSE, <<>>, <<>>, <<>>)

\* option lists handed to the update callback
UpdateLists ==
  {[k \in 1..Len(a) |-> Option(Loaded(a[k]))] : a \in Arrangements}

CSI(c) == <<"ESC", "[", c>>

\* chunks the terminal delivers: whole keys, and the pieces of keys that
\* arrive split
Keys ==
  {CSI("A"), CSI("B"), CSI("C"), CSI("D"), CSI("H"), CSI("F"),
   <<"ESC">>, CSI("1"), <<"~">>,
   <<"ETX">>, <<"DC2">>, <<"DC3">>, <<"EOT">>, <<"SOH">>,
   <<"CR">>, <<"DEL">>, <<"TAB">>, <<"1">>}

StreamErrors == {"EIO"}

\* ------------------------------------------------------------------ actions
InitController ==
  /\ projects = initialProjects
  /\ selected = {}
  /\ cursorIndex = 0
  /\ startIndex = 0
  /\ escapeSequence = <<>>
  /\ searchQuery = <<>>
  /\ isDetailViewActive = FALSE
  /\ detailViewActionIndex = 0
  /\ detailViewProjectId = 0
  /\ isSettingsMenuActive = FALSE
  /\ isInitialized = TRUE
  /\ lastViewState = "projects"
  /\ cursorVisible = FALSE
  /\ listening = TRUE
  /\ rawMode = TRUE
  /\ paused = FALSE
  /\ settled = "pending"
  /\ result = NoResult
  /\ threw = FALSE
  /\ lastEvent = "start"
  /\ detailViewData = NoDetail
  /\ cache = EmptyCache
  /\ now = 0
  /\ lastGet = 0
  /\ written = EmptyCache
  /\ opened = <<>>
  /\ LET first == {initialProjects[k].value : k \in 1..Min(pageSize, Len(initialProjects))}
     IN /\ prefetchInFlight = (IF fetchDetailData THEN first ELSE {})
        /\ fetches = (IF fetchDetailData
                      THEN {Fetch(id, "prefetch", 0) : id \in first} ELSE {})

Teams == {0, 1}

\* projectsCommand up to its first prompt: the projects of the scope are
\* listed and the deployment fetches are started
InitOrchestratorWith(ids) ==
  /\ pc = "prompt"
  /\ scopeTeamId = 0
  /\ remote = [t \in Teams |-> IF t = 0 THEN ids ELSE {}]
  /\ listedProjects = Ascending(ids)
  /\ fetchPending = ids
  /\ selectedProjects = <<>>
  /\ deletedCount = 0
  /\ confirmed = "none"
  /\ deleteCalls = [i \in Ids |-> 0]
  /\ rounds = 1

InitOrchestrator == InitOrchestratorWith(Ids)

Init ==
  /\ allProjects = [i \in 1..NumIds |-> Fresh(i, NameOf(i))]
  /\ initialProjects = [i \in 1..NumIds |-> Option(allProjects[i])]
  /\ wasRawMode \in BOOLEAN
  /\ fetchDetailData = FALSE
  /\ scopeSlug = <<>>
  /\ InitController
  /\ InitOrchestrator

\* stdin emits a chunk; it reaches handleData while the listener is registered
StdinData(data) ==
  /\ ~threw
  /\ Len(handleData(S, data).searchQuery) <= MaxQuery
  /\ Cardinality(handleData(S, data).fetches) <= MaxFetches
  /\ Len(handleData(S, data).opened) <= MaxOpens
  /\ IF listening THEN Commit(handleData(S, data)) ELSE UNCHANGED ctlVars
  /\ UNCHANGED argVars
  /\ UNCHANGED envVars

\* the caller invokes the callback registered through onUpdate
UpdateCallback(newProjects) ==
  /\ ~threw
  /\ Commit(updateProjects(S, newProjects))
  /\ UNCHANGED argVars
  /\ UNCHANGED envVars

\* stdin emits "error"
StdinError(err) ==
  /\ ~threw
  /\ Commit(onStdinError(S, err))
  /\ UNCHANGED argVars
  /\ UNCHANGED envVars

\* a fetchDetailData promise settles: the data is cached when it is
\* fulfilled; the closure that started it clears its in-flight mark
\* (prefetch) or shows the outcome (detail view)
\* variant: a failed fetch skips the finally-handler
FetchSettledNoFinally(f, ok) ==
  /\ ~threw
  /\ f \in fetches
  /\ LET c1 == IF ok THEN setCache(cache, DetailKey(f.id), fetched(f), DEFAULT_TTL)
                ELSE cache
         s1 == [S EXCEPT !.cache = c1, !.fetches = @ \ {f}]
     IN Commit(IF f.prompt # rounds THEN s1
               ELSE IF f.kind = "prefetch"
               THEN (IF ok THEN [s1 EXCEPT !.prefetchInFlight = @ \ {f.id}] ELSE s1)
               ELSE render([s1 EXCEPT !.detailViewData =
                                        DetailLoaded(IF ok THEN fetched(f) ELSE 0)]))
  /\ UNCHANGED <<argVars, envVars, orchVars>>

\* variant: a failed detail fetch leaves the loading state on the screen
FetchSettledNoCatch(f, ok) ==
  /\ ~threw
  /\ f \in fetches
  /\ LET c1 == IF ok THEN setCache(cache, DetailKey(f.id), fetched(f), DEFAULT_TTL)
                ELSE cache
         s1 == [S EXCEPT !.cache = c1, !.fetches = @ \ {f}]
     IN Commit(IF f.prompt # rounds THEN s1
               ELSE IF f.kind = "prefetch"
               THEN [s1 EXCEPT !.prefetchInFlight = @ \ {f.id}]
               ELSE IF ok
               THEN render([s1 EXCEPT !.detailViewData = DetailLoaded(fetched(f))])
               ELSE s1)
  /\ UNCHANGED <<argVars, envVars, orchVars>>

FetchSettled(f, ok) ==
  /\ ~threw
  /\ f \in fetches
  /\ LET c1 == IF ok THEN setCache(cache, DetailKey(f.id), fetched(f), DEFAULT_TTL)
                ELSE cache
         s1 == [S EXCEPT !.cache = c1, !.fetches = @ \ {f}]
     IN Commit(IF f.prompt # rounds THEN s1
               ELSE IF f.kind = "prefetch"
               THEN [s1 EXCEPT !.prefetchInFlight = @ \ {f.id}]
               ELSE render([s1 EXCEPT !.detailViewData =
                                        DetailLoaded(IF ok THEN fetched(f) ELSE 0)]))
  /\ UNCHANGED <<argVars, envVars, orchVars>>

vars == <<initialProjects, allProjects, wasRawMode, projects, selected,
          cursorIndex, startIndex, escapeSequence, searchQuery,
          isDetailViewActive, detailViewActionIndex, detailViewProjectId,
          isSettingsMenuActive, isInitialized, lastViewState, cursorVisible,
          listening, rawMode, paused, settled, result, threw, lastEvent,
          fetchDetailData, detailViewData, prefetchInFlight, fetches, cache,
          now, lastGet, written, scopeSlug, opened,
          pc, scopeTeamId, remote, listedProjects, fetchPending,
          selectedProjects, deletedCount, confirmed, deleteCalls, rounds>>

\* the orchestrator's usual update (every project, another order) and the
\* empty list
FewUpdates ==
  {[k \in 1..Len(a) |-> Option(Loaded(a[k]))] : a \in {<<>>, Reversed(Ascending(Ids))}}

Next ==
  \/ \E data \in Keys : StdinData(data) /\ UNCHANGED lastEvent /\ UNCHANGED orchVars
  \/ \E newProjects \in FewUpdates : UpdateCallback(newProjects) /\ UNCHANGED lastEvent /\ UNCHANGED orchVars
  \/ \E err \in StreamErrors : StdinError(err) /\ UNCHANGED lastEvent /\ UNCHANGED orchVars

\* every key and exit of the controller, with few update lists
Spec == Init /\ [][Next]_vars

\* keys of the list view
ListKeys ==
  {CSI("A"), CSI("B"), CSI("D"), CSI("H"), CSI("F"), <<"CR">>, <<"DEL">>, <<"a">>}

NextList ==
  \/ \E data \in ListKeys :
       /\ StdinData(data)
       /\ lastEvent' = (IF data = CSI("B") /\ listening
                           /\ handleData(S, data).startIndex # startIndex
                        THEN "scrolled" ELSE "data")
       /\ UNCHANGED orchVars
  \/ \E newProjects \in UpdateLists : UpdateCallback(newProjects) /\ lastEvent' = "update" /\ UNCHANGED orchVars

\* the list view under every update list
SpecList == Init /\ [][NextList]_vars

\* keys that lead to an exit, with the views they start from
ExitKeys ==
  {<<"ETX">>, <<"DC2">>, <<"DC3">>, <<"EOT">>, <<"CR">>, <<"1">>, <<"ESC">>,
   CSI("B"), CSI("C")}

NextExit ==
  \/ \E data \in ExitKeys :
       /\ StdinData(data)
       /\ lastEvent' = (IF listening THEN "data" ELSE "dropped")
       /\ UNCHANGED orchVars
  \/ \E newProjects \in FewUpdates : UpdateCallback(newProjects) /\ lastEvent' = "update" /\ UNCHANGED orchVars
  \/ \E err \in StreamErrors : StdinError(err) /\ lastEvent' = "error" /\ UNCHANGED orchVars

\* the exits of the controller and what follows them
SpecExit == Init /\ [][NextExit]_vars

\* ------------------------------------------------------------------ caller
\* the closure state of a prompt that has just been shown
initialState(options) ==
  [projects |-> options, selected |-> {}, cursorIndex |-> 0, startIndex |-> 0,
   escapeSequence |-> <<>>, searchQuery |-> <<>>, isDetailViewActive |-> FALSE,
   detailViewActionIndex |-> 0, detailViewProjectId |-> 0,
   isSettingsMenuActive |-> FALSE, isInitialized |-> TRUE,
   lastViewState |-> "projects", cursorVisible |-> FALSE, listening |-> TRUE,
   rawMode |-> TRUE, paused |-> FALSE, settled |-> "pending",
   result |-> NoResult, threw |-> FALSE, detailViewData |-> NoDetail,
   prefetchInFlight |-> {}, fetches |-> fetches, cache |-> cache,
   opened |-> opened]

\* top of the while loop: every project gets the loading state, the deployment
\* fetches start and promptProjectsWithDynamicUpdates is called
StartPrompt(ids, c) ==
  LET records == [k \in 1..Len(ids) |-> Fresh(ids[k], NameOf(ids[k]))]
      shown == prefetchVisibleProjects(
                 [initialState([k \in 1..Len(ids) |-> Option(records[k])])
                    EXCEPT !.cache = c])
      started == {[f EXCEPT !.prompt = rounds + 1] : f \in shown.fetches \ fetches}
  IN /\ rounds < MaxRounds
     /\ Cardinality(fetches \cup started) <= MaxFetches
     /\ allProjects' = records
     /\ initialProjects' = [k \in 1..Len(ids) |-> Option(records[k])]
     /\ wasRawMode' = rawMode
     /\ fetchDetailData' = fetchDetailData
     /\ scopeSlug' = scopeSlug
     /\ Commit([shown EXCEPT !.fetches = fetches \cup started])
     /\ listedProjects' = ids
     /\ fetchPending' = {ids[k] : k \in 1..Len(ids)}
     /\ rounds' = rounds + 1
     /\ pc' = "prompt"

\* projects = await api.listProjects(team); an empty answer ends the loop
Relist(team, c) ==
  LET ids == Ascending(remote[team])
  IN IF ids = <<>>
     THEN /\ pc' = "exited"
          /\ listedProjects' = ids
          /\ cache' = c
          /\ UNCHANGED <<localVars, fetches, opened, argVars, fetchPending, rounds>>
     ELSE StartPrompt(ids, c)

\* a listDeployments call of fetchDeploymentsForPage answers (or fails): the
\* record stops loading and the update callback gets the whole list again
DeploymentFetched(id) ==
  /\ UNCHANGED envVars
  /\ pc = "prompt"
  /\ ~threw
  /\ id \in fetchPending
  /\ LET updated == [k \in 1..Len(allProjects) |->
                       IF allProjects[k].id = id THEN Loaded(id) ELSE allProjects[k]]
     IN /\ allProjects' = updated
        /\ Commit(updateProjects(S, [k \in 1..Len(updated) |-> Option(updated[k])]))
  /\ fetchPending' = fetchPending \ {id}
  /\ UNCHANGED <<initialProjects, wasRawMode, fetchDetailData, scopeSlug, lastEvent, pc,
                 scopeTeamId, remote,
                 listedProjects, selectedProjects, deletedCount, confirmed,
                 deleteCalls, rounds>>

\* variant: the list is shown again whatever the action
PromptReturnsAgain ==
  /\ UNCHANGED envVars
  /\ pc = "prompt"
  /\ ~threw
  /\ settled # "pending"
  /\ fetchPending = {}
  /\ confirmed' = "none"
  /\ deletedCount' = 0
  /\ UNCHANGED <<scopeTeamId, remote, deleteCalls, lastEvent>>
  /\ selectedProjects' = <<>>
  /\ StartPrompt(listedProjects, cache)

\* the prompt has settled and the deployment fetches are over: dispatch on
\* the action (a rejection ends projectsCommand through its catch block)
PromptReturns ==
  /\ UNCHANGED envVars
  /\ pc = "prompt"
  /\ ~threw
  /\ settled # "pending"
  /\ fetchPending = {}
  /\ confirmed' = "none"
  /\ deletedCount' = 0
  /\ UNCHANGED <<scopeTeamId, remote, deleteCalls, lastEvent>>
  /\ LET wanted(i) == i \in result.projectIds
         chosen == SelectSeq(listedProjects, wanted)
     IN CASE result.action = "delete" /\ chosen # <<>> ->
               /\ pc' = "confirm"
               /\ selectedProjects' = chosen
               /\ UNCHANGED <<ctlVars, argVars, listedProjects, fetchPending, rounds>>
          [] result.action = "delete" /\ chosen = <<>> ->
               /\ selectedProjects' = <<>>
               /\ StartPrompt(listedProjects, cache)
          [] result.action = "refresh" ->
               /\ selectedProjects' = <<>>
               /\ Relist(scopeTeamId,
                         invalidateCachePrefix(
                           invalidateCachePrefix(cache, ProjectPrefix),
                           CACHE_KEY_DETAIL_VIEW))
          [] result.action = "change-team" ->
               /\ pc' = "team"
               /\ selectedProjects' = <<>>
               /\ UNCHANGED <<ctlVars, argVars, listedProjects, fetchPending, rounds>>
          [] OTHER ->
               /\ pc' = "exited"
               /\ selectedProjects' = <<>>
               /\ UNCHANGED <<ctlVars, argVars, listedProjects, fetchPending, rounds>>

\* variant: the delete loop starts whatever confirmAction answered
ConfirmAnsweredUnchecked(answer) ==
  /\ UNCHANGED envVars
  /\ pc = "confirm"
  /\ confirmed' = IF answer THEN "yes" ELSE "no"
  /\ deletedCount' = 0
  /\ pc' = "deleting"
  /\ UNCHANGED <<ctlVars, argVars, lastEvent, scopeTeamId, remote, listedProjects,
                 fetchPending, selectedProjects, deleteCalls, rounds>>

\* handleDeleteActionFromSelection after confirmAction: a refusal returns
\* {deletedCount: 0, cancelled: true} and the loop shows the list again
ConfirmAnswered(answer) ==
  /\ UNCHANGED envVars
  /\ pc = "confirm"
  /\ confirmed' = IF answer THEN "yes" ELSE "no"
  /\ deletedCount' = 0
  /\ UNCHANGED <<scopeTeamId, remote, deleteCalls, lastEvent>>
  /\ IF answer
     THEN /\ pc' = "deleting"
          /\ UNCHANGED <<ctlVars, argVars, listedProjects, fetchPending,
                         selectedProjects, rounds>>
     ELSE /\ selectedProjects' = <<>>
          /\ StartPrompt(listedProjects, cache)

\* one turn of the delete loop: api.deleteProject(project.id, teamId) is
\* called and succeeds or throws
DeleteProject(ok) ==
  /\ UNCHANGED envVars
  /\ pc = "deleting"
  /\ selectedProjects # <<>>
  /\ LET id == Head(selectedProjects)
     IN /\ ok => id \in remote[scopeTeamId]
        /\ deleteCalls' = [deleteCalls EXCEPT ![id] = @ + 1]
        /\ remote' = IF ok THEN [remote EXCEPT ![scopeTeamId] = @ \ {id}] ELSE remote
  /\ deletedCount' = IF ok THEN deletedCount + 1 ELSE deletedCount
  /\ selectedProjects' = Tail(selectedProjects)
  /\ UNCHANGED <<ctlVars, argVars, lastEvent, pc, scopeTeamId, listedProjects,
                 fetchPending, confirmed, rounds>>

\* the delete loop is over: the projects are listed again if any was deleted
DeleteFinished ==
  /\ UNCHANGED envVars
  /\ pc = "deleting"
  /\ selectedProjects = <<>>
  /\ UNCHANGED <<scopeTeamId, remote, selectedProjects, deletedCount, confirmed,
                 deleteCalls, lastEvent>>
  /\ IF deletedCount > 0 THEN Relist(scopeTeamId, cache) ELSE StartPrompt(listedProjects, cache)

\* promptTeam answers: another team changes the scope and lists its projects
TeamSelected(team) ==
  /\ UNCHANGED envVars
  /\ pc = "team"
  /\ UNCHANGED <<remote, selectedProjects, deletedCount, confirmed, deleteCalls,
                 lastEvent>>
  /\ scopeTeamId' = team
  /\ IF team # scopeTeamId THEN Relist(team, cache) ELSE StartPrompt(listedProjects, cache)

\* keys used while the caller is followed: select, invert the selection,
\* delete, cancel and refresh
OrchKeys ==
  {<<"CR">>, <<"SOH">>, <<"EOT">>, <<"ETX">>, <<"DC2">>}

NextOrch ==
  \/ \E data \in OrchKeys :
       pc = "prompt" /\ StdinData(data) /\ UNCHANGED lastEvent /\ UNCHANGED orchVars
  \/ \E err \in StreamErrors :
       pc = "prompt" /\ StdinError(err) /\ UNCHANGED lastEvent /\ UNCHANGED orchVars
  \/ \E id \in Ids : DeploymentFetched(id)
  \/ PromptReturns
  \/ \E answer \in BOOLEAN : ConfirmAnswered(answer)
  \/ \E ok \in BOOLEAN : DeleteProject(ok)
  \/ DeleteFinished

\* projectsCommand around the prompt: selections, deletions and refreshes
SpecOrch == Init /\ [][NextOrch]_vars

\* ------------------------------------------------------------------ refresh
\* the projects of the account followed through a refresh
RefreshIds == {1, 2}

\* the prompt is given a fetchDetailData callback
InitRefresh ==
  /\ allProjects = [i \in 1..Cardinality(RefreshIds) |-> Fresh(i, NameOf(i))]
  /\ initialProjects = [i \in 1..Cardinality(RefreshIds) |-> Option(allProjects[i])]
  /\ wasRawMode = FALSE
  /\ fetchDetailData = TRUE
  /\ scopeSlug = <<>>
  /\ InitOrchestratorWith(RefreshIds)
  /\ InitController

\* keys used around a refresh: select, open and leave the detail view,
\* refresh
RefreshKeys == {<<"CR">>, CSI("C"), CSI("D"), <<"DC2">>}

NextRefresh ==
  \/ \E data \in RefreshKeys :
       /\ pc = "prompt"
       /\ StdinData(data)
       /\ lastEvent' = (IF data = <<"DC2">> /\ listening /\ DOMAIN cache # {}
                        THEN "cleared" ELSE lastEvent)
       /\ UNCHANGED orchVars
  \/ \E f \in fetches : FetchSettled(f, TRUE) /\ UNCHANGED lastEvent
  \/ \E id \in Ids : DeploymentFetched(id)
  \/ PromptReturns

\* the prompt with detail fetches that succeed, followed through a manual
\* refresh
SpecRefresh == InitRefresh /\ [][NextRefresh]_vars

\* ------------------------------------------------------------------ search
\* records whose deployment data has arrived: never deployed, READY with a
\* creator known by username, ERROR with a creator known by email only
Kinds == {"never", "ready", "error"}

Record(i, kind) ==
  CASE kind = "never" -> Loaded(i)
    [] kind = "ready" ->
         Project(i, NameOf(i), FALSE, TRUE, Str("READY"), TRUE, <<"B", "o">>, <<>>, <<>>)
    [] kind = "error" ->
         Project(i, NameOf(i), FALSE, TRUE, Str("ERROR"), TRUE, <<>>, <<"B", "o">>, <<>>)

\* a prompt started on records of every kind
InitFilter ==
  /\ \E kinds \in [Ids -> Kinds] :
       allProjects = [i \in 1..NumIds |-> Record(i, kinds[i])]
  /\ initialProjects = [i \in 1..NumIds |-> Option(allProjects[i])]
  /\ wasRawMode = FALSE
  /\ fetchDetailData = FALSE
  /\ scopeSlug = <<>>
  /\ InitController
  /\ pc = "prompt"
  /\ scopeTeamId = 0
  /\ remote = [t \in Teams |-> IF t = 0 THEN Ids ELSE {}]
  /\ listedProjects = Ascending(Ids)
  /\ fetchPending = {}
  /\ selectedProjects = <<>>
  /\ deletedCount = 0
  /\ confirmed = "none"
  /\ deleteCalls = [i \in Ids |-> 0]
  /\ rounds = 1

\* characters typed into the search, backspace and the clearing left-arrow
FilterKeys ==
  {<<"a">>, <<"n">>, <<"y">>, <<"B">>, <<" ">>, <<"DEL">>, CSI("D")}

NextFilter ==
  \E data \in FilterKeys : StdinData(data) /\ UNCHANGED lastEvent /\ UNCHANGED orchVars

\* the search of the list view over loaded records
SpecFilter == InitFilter /\ [][NextFilter]_vars

\* ------------------------------------------------------------------ cursor
\* characters typed into the search, backspace and the down-arrow
CursorKeys == {<<"y">>, <<"n">>, <<"DEL">>, CSI("B")}

\* the focused row's id is missing from the list a query change displays
FocusLost(t) ==
  /\ t.searchQuery # searchQuery
  /\ cursorIndex >= 1
  /\ currentProjectId(S) # 0
  /\ findIndex(t.projects, currentProjectId(S)) = -1
  /\ Len(t.projects) >= 2

NextCursor ==
  \E data \in CursorKeys :
    /\ StdinData(data)
    /\ lastEvent' = (IF FocusLost(handleData(S, data)) THEN "lost" ELSE "data")
    /\ UNCHANGED orchVars

\* the cursor of the list view while the search is edited
SpecCursor == InitFilter /\ [][NextCursor]_vars

\* ------------------------------------------------------------------ selection
\* keys that select, invert, move and filter
SelectKeys ==
  {<<"CR">>, <<"SOH">>, CSI("B"), <<"a">>, <<"DEL">>, CSI("D")}

NextSelect ==
  \/ \E data \in SelectKeys :
       /\ StdinData(data)
       /\ lastEvent' = (IF data = <<"SOH">> /\ listening THEN "invert" ELSE "data")
       /\ UNCHANGED orchVars
  \/ \E newProjects \in FewUpdates :
       UpdateCallback(newProjects) /\ lastEvent' = "update" /\ UNCHANGED orchVars

\* the selection of the list view under filters and updates
SpecSelect == Init /\ [][NextSelect]_vars

\* ------------------------------------------------------------------ cache use
\* keys under the two prefixes the program invalidates, and a key that is
\* only the beginning of one of them
CacheKeys == {DetailKey(1), ProjectPrefix \o IdText(1), <<"p", "r", "o">>}

Prefixes == {ProjectPrefix, CACHE_KEY_DETAIL_VIEW}

CacheData == {1, 2}

TTLs == {TickMs, DEFAULT_TTL}

CacheFrame == UNCHANGED <<localVars, fetches, opened, argVars, orchVars>>

CacheSet(key, data, ttlMs) ==
  /\ cache' = setCache(cache, key, data, ttlMs)
  /\ written' = [k \in DOMAIN written \cup {key} |->
                   IF k = key THEN [data |-> data, at |-> now, ttl |-> ttlMs]
                   ELSE written[k]]
  /\ lastGet' = 0
  /\ lastEvent' = "set"
  /\ UNCHANGED now
  /\ CacheFrame

CacheGet(key) ==
  /\ cache' = getCached(cache, key).cache
  /\ lastGet' = getCached(cache, key).data
  /\ lastEvent' = (IF key \notin DOMAIN cache THEN "miss"
                   ELSE IF key \in DOMAIN cache' THEN "hit" ELSE "expired")
  /\ written' = [k \in DOMAIN written \cap DOMAIN cache' |-> written[k]]
  /\ UNCHANGED now
  /\ CacheFrame

CacheInvalidate(key) ==
  /\ cache' = invalidateCache(cache, key)
  /\ written' = [k \in DOMAIN written \ {key} |-> written[k]]
  /\ lastGet' = 0
  /\ lastEvent' = "invalidate"
  /\ UNCHANGED now
  /\ CacheFrame

CacheInvalidatePrefix(prefix) ==
  /\ cache' = invalidateCachePrefix(cache, prefix)
  /\ written' = [k \in DOMAIN written \cap DOMAIN cache' |-> written[k]]
  /\ lastGet' = 0
  /\ lastEvent' = (IF DOMAIN cache' = DOMAIN cache THEN "kept" ELSE "removed")
  /\ UNCHANGED now
  /\ CacheFrame

\* time passes
Tick ==
  /\ now + TickMs <= MaxTicks * TickMs
  /\ now' = now + TickMs
  /\ lastGet' = 0
  /\ lastEvent' = "tick"
  /\ UNCHANGED <<cache, written>>
  /\ CacheFrame

NextCache ==
  \/ \E key \in CacheKeys, data \in CacheData, ttlMs \in TTLs : CacheSet(key, data, ttlMs)
  \/ \E key \in CacheKeys : CacheGet(key)
  \/ \E key \in CacheKeys : CacheInvalidate(key)
  \/ \E prefix \in Prefixes : CacheInvalidatePrefix(prefix)
  \/ Tick

\* the cache module used directly, with time passing
SpecCache == Init /\ [][NextCache]_vars

TypeOK ==
  /\ selected \subseteq Ids
  /\ settled \in {"pending", "resolved", "rejected"}

\* ------------------------------------------------------------------ claims
CursorOnRow == Len(projects) > 0 /\ cursorIndex \in 0..(Len(projects) - 1)

\* C1: in every reachable state with a non-empty list the cursor is on a row,
\* 0 <= cursorIndex < items.length, whatever lists the update callback received
\* (the empty list included).
CursorInvariant ==
  Len(projects) > 0 => (0 <= cursorIndex /\ cursorIndex < Len(projects))

\* C2: in every reachable state with a non-empty list and the cursor on a row,
\* the cursor row is inside the visible page:
\* pageStart <= cursorIndex < pageStart + pageSize.
PageInvariant ==
  CursorOnRow => (startIndex <= cursorIndex /\ cursorIndex < startIndex + pageSize)

\* C7: while the search query is non-empty, a call of the update callback
\* leaves the list, the cursor, the page start and the selection as they were.
UpdateSuppressedDuringFilter ==
  [][(searchQuery # <<>> /\ lastEvent' = "update"
         /\ \E l \in UpdateLists : UpdateCallback(l))
       => UNCHANGED <<projects, cursorIndex, startIndex, selected>>]_vars

\* C7 witness: an update callback has just run while a query was active and
\* the filtered list (shorter than the full one) is still displayed.
UpdateWhileFiltering ==
  /\ lastEvent = "update"
  /\ searchQuery = <<"a", "a">>
  /\ Len(projects) = NumIds - 1

\* C8: when an update is applied (empty query) and the id under the cursor is
\* in the new list, the list becomes the supplied one and the cursor is on
\* the row of that id.
UpdateKeepsCursorOnId ==
  [][\A l \in UpdateLists :
       (/\ searchQuery = <<>>
        /\ lastEvent' = "update"
        /\ CursorOnRow
        /\ \E k \in 1..Len(l) : l[k].value = projects[cursorIndex + 1].value
        /\ UpdateCallback(l))
       => (/\ projects' = l
           /\ cursorIndex' \in 0..(Len(l) - 1)
           /\ l[cursorIndex' + 1].value = projects[cursorIndex + 1].value)]_vars

\* C8 witness: an update has just been applied and the cursor sits on row 0
\* of a list led by the project that was last in the initial order: it
\* followed that project from the last row to the first.
CursorFollowedToTop ==
  /\ lastEvent = "update"
  /\ ~threw
  /\ searchQuery = <<>>
  /\ Len(projects) = NumIds
  /\ projects[1].value = NumIds
  /\ cursorIndex = 0

\* C3: in any view and whatever is buffered from a partial escape sequence, a
\* chunk made of the interrupt byte resolves the prompt with no ids and no
\* action.
InterruptAlwaysResolves ==
  [][(listening /\ ~threw /\ settled = "pending" /\ StdinData(<<"ETX">>))
       => (/\ settled' = "resolved"
           /\ result'.projectIds = {}
           /\ result'.action = "null")]_vars

Restored == ~listening /\ rawMode = wasRawMode /\ paused /\ cursorVisible

\* C4: once the promise has settled, by any exit, the input listener is
\* removed, raw mode is back to its value at the start, stdin is paused and
\* the cursor is visible; an input-stream error rejects the pending promise
\* with that error.
ExitRestoresTerminal ==
  /\ [](settled # "pending" => Restored)
  /\ [][\A err \in StreamErrors :
          (settled = "pending" /\ lastEvent' = "error" /\ StdinError(err))
          => (settled' = "rejected" /\ result'.error = err /\ Restored')]_vars

\* C4 witness: the prompt was started outside raw mode and a stream error has
\* just rejected it, with the terminal restored.
RejectedAndRestored ==
  /\ lastEvent = "error"
  /\ settled = "rejected"
  /\ result.error = "EIO"
  /\ ~wasRawMode
  /\ ~rawMode

\* C5: a settled promise keeps its state and its value, and a chunk that
\* arrives after it settled changes nothing of the controller.
SettlesOnce ==
  [][settled # "pending"
       => (/\ settled' = settled
           /\ result' = result
           /\ \A data \in ExitKeys : StdinData(data) => UNCHANGED ctlVars)]_vars

\* C5 witness: the prompt resolved with a delete and a chunk has arrived
\* since, when no listener was left to receive it.
ChunkAfterDelete ==
  /\ settled = "resolved"
  /\ result.action = "delete"
  /\ result.projectIds # {}
  /\ lastEvent = "dropped"

DeleteOnlyAfterConfirmation ==
  /\ [][\A id \in Ids :
          deleteCalls'[id] # deleteCalls[id]
          => (/\ settled = "resolved"
              /\ result.action = "delete"
              /\ id \in result.projectIds
              /\ confirmed = "yes")]_vars
  /\ [][(pc = "confirm" /\ confirmed' = "no")
          => (/\ deleteCalls' = deleteCalls
              /\ remote' = remote
              /\ pc' = "prompt"
              /\ settled' = "pending"
              /\ listening'
              /\ projects' = initialProjects')]_vars
  /\ [](confirmed = "no" => pc # "deleting")

\* C6 witness: a batch of two projects was confirmed and the delete loop has
\* deleted one of them; the project left out of the selection was not touched.
ConfirmedBatchDeleting ==
  /\ confirmed = "yes"
  /\ result.action = "delete"
  /\ Cardinality(result.projectIds) = 2
  /\ \E id \in result.projectIds :
       deleteCalls[id] = 1 /\ id \notin remote[scopeTeamId]
  /\ \E id \in Ids \ result.projectIds :
       deleteCalls[id] = 0 /\ id \in remote[scopeTeamId]

OptionsOf(records) == [k \in 1..Len(records) |-> Option(records[k])]

HasState(p) == p.hasDeployment /\ p.state # <<>>

NameOrCreatorContains(p, q) ==
  \/ includes(toLowerCase(p.name), q)
  \/ /\ p.hasDeployment /\ p.hasCreator
     /\ includes(toLowerCase(IF p.username # <<>> THEN p.username
                             ELSE IF p.email # <<>> THEN p.email ELSE p.uid), q)

StateKeywords ==
  {<<"r", "e", "a", "d", "y">>, <<"e", "r", "r", "o", "r">>,
   <<"b", "u", "i", "l", "d", "i", "n", "g">>, <<"q", "u", "e", "u", "e", "d">>,
   <<"c", "a", "n", "c", "e", "l", "e", "d">>,
   <<"i", "n", "i", "t", "i", "a", "l", "i", "z", "i", "n", "g">>}

Never == <<"n", "e", "v", "e", "r">>

\* the state clause as stated: q is a keyword and the state is that keyword
StateIsKeyword(p, q) ==
  /\ q \in StateKeywords \cup {Never}
  /\ IF HasState(p) THEN toLowerCase(p.state) = q ELSE q = Never

\* the state clause by containment
StateContains(p, q) ==
  IF HasState(p) THEN includes(toLowerCase(p.state), q) ELSE includes(Never, q)

Filtering == ~threw /\ trim(searchQuery) # <<>> /\ allProjects # <<>>

\* C10 as stated: with a non-empty trimmed query q the displayed items are the
\* backing records, in backing order, whose name or creator key contains q,
\* or whose deployment state is the keyword q (q being a state keyword or
\* "never"), and no other record.
FilterByKeyword ==
  Filtering =>
    LET q == toLowerCase(trim(searchQuery))
        keep(p) == NameOrCreatorContains(p, q) \/ StateIsKeyword(p, q)
    IN projects = OptionsOf(SelectSeq(allProjects, keep))

\* C10: with a non-empty trimmed query q and backing records supplied, the
\* displayed items are the backing records, in backing order, whose name
\* contains q, or whose creator key (username, else email, else uid) contains
\* q, or whose deployment state contains q, or that have no deployment state
\* while "never" contains q (all case-insensitively), and no other record.
FilterByContainment ==
  Filtering =>
    LET q == toLowerCase(trim(searchQuery))
        keep(p) == NameOrCreatorContains(p, q) \/ StateContains(p, q)
    IN projects = OptionsOf(SelectSeq(allProjects, keep))

\* C10 witness: the query "y" shows only the READY project, found by its
\* state, among a never-deployed, a READY and an ERROR project.
ReadyFoundByState ==
  /\ searchQuery = <<"y">>
  /\ Len(projects) = 1
  /\ projects[1].value = 2
  /\ ~allProjects[1].hasDeployment
  /\ allProjects[2].state = Str("READY")
  /\ allProjects[3].state = Str("ERROR")

InList(t) ==
  ~t.isDetailViewActive /\ ~t.isSettingsMenuActive /\ t.detailViewProjectId = 0

\* C11: in the detail view, whatever the highlighted action, a left-arrow
\* returns to the list with the detail target cleared, and so does an escape
\* key, at the latest once the chunk after it (here a tab) has shown that no
\* longer sequence was starting.
DetailBackKeys ==
  (listening /\ ~threw /\ isDetailViewActive /\ escapeSequence = <<>>)
    => LET left == handleData(S, CSI("D"))
           esc == handleData(S, <<"ESC">>)
           after == handleData(esc, <<"TAB">>)
       IN InList(left) /\ (InList(esc) \/ InList(after))

MultiByteKeys ==
  {CSI("A"), CSI("B"), CSI("C"), CSI("D"), CSI("H"), CSI("F"), CSI("Z"),
   <<"ESC", "[", "1", "~">>, <<"ESC", "[", "4", "~">>}

\* C12: from a state with nothing buffered, a multi-byte key delivered in two
\* chunks cut at any byte boundary, or byte by byte, leaves the controller in
\* the state the key gives when it arrives in one chunk.
SplitEqualsWhole ==
  (listening /\ ~threw /\ escapeSequence = <<>>)
    => \A k \in MultiByteKeys :
         /\ \A cut \in 1..(Len(k) - 1) :
              handleData(handleData(S, SubSeq(k, 1, cut)), SubSeq(k, cut + 1, Len(k)))
                = handleData(S, k)
         /\ handleData(handleData(handleData(S, <<k[1]>>), <<k[2]>>), SubSeq(k, 3, Len(k)))
              = handleData(S, k)

\* C13: the prompt resolves with the delete action only from a non-empty
\* selection, and with exactly the selected ids; a delete key with an empty
\* selection does not settle the prompt and changes nothing of the list, the
\* selection, the cursor, the page, the query, the view and the terminal.
DeleteNeedsSelection ==
  /\ [][(settled = "pending" /\ settled' = "resolved" /\ result'.action = "delete")
          => (selected # {} /\ result'.projectIds = selected)]_vars
  /\ [][(listening /\ ~threw /\ selected = {} /\ StdinData(<<"EOT">>))
          => UNCHANGED <<projects, selected, cursorIndex, startIndex, searchQuery,
                         isDetailViewActive, detailViewActionIndex,
                         detailViewProjectId, isSettingsMenuActive, cursorVisible,
                         listening, rawMode, paused, settled, result>>]_vars

\* C13 witness: a delete key has just resolved the prompt with the two
\* selected ids.
DeleteResolvedWithSelection ==
  /\ lastEvent = "data"
  /\ settled = "resolved"
  /\ result.action = "delete"
  /\ result.projectIds = selected
  /\ Cardinality(selected) = 2

Shown(t) == {t.projects[i].value : i \in 1..Len(t.projects)}

\* C14: in the list view, invert-all makes selected exactly the displayed ids
\* that were not selected together with the selected ids that are not
\* displayed, and a second invert-all gives the selection back.
InvertAllFlipsShown ==
  [][(/\ listening /\ ~threw
      /\ ~isDetailViewActive /\ ~isSettingsMenuActive
      /\ escapeSequence = <<>>
      /\ StdinData(<<"SOH">>))
       => (/\ \A id \in Ids :
                (id \in selected') <=> ((id \in Shown(S)) # (id \in selected))
           /\ projects' = projects
           /\ handleData(handleData(S, <<"SOH">>), <<"SOH">>).selected = selected)]_vars

\* C14 witness: under the query "aa", which hides project 1, invert-all has
\* just selected the two displayed projects and kept the hidden one selected.
InvertedUnderFilter ==
  /\ lastEvent = "invert"
  /\ searchQuery = <<"a", "a">>
  /\ Len(projects) = NumIds - 1
  /\ selected = Ids

\* C15: a read of a key whose last setCache (data v, ttl, at time t) was
\* neither overwritten nor invalidated returns v while the clock is not past
\* t + ttl; past it the read returns null and the entry is gone from the
\* store.
CacheTTL ==
  [][\A key \in CacheKeys :
       (key \in DOMAIN written /\ CacheGet(key))
       => IF now <= written[key].at + written[key].ttl
          THEN lastGet' = written[key].data /\ key \in DOMAIN cache'
          ELSE lastGet' = 0 /\ key \notin DOMAIN cache']_vars

\* C15 witness: a read has just found its entry expired and removed it, the
\* clock being one tick past the expiry of a setCache with the short ttl.
ExpiredEntryEvicted ==
  /\ lastEvent = "expired"
  /\ lastGet = 0
  /\ now = 2 * TickMs
  /\ DetailKey(1) \notin DOMAIN cache
  /\ DOMAIN cache # {}

HasPrefix(key, prefix) == \E n \in 0..Len(key) : SubSeq(key, 1, n) = prefix

\* C16: invalidateCachePrefix(p) removes the entries whose key begins with p,
\* so that a read of any of them returns null, and leaves every other entry
\* with its value and expiry.
InvalidatePrefixExact ==
  [][\A prefix \in Prefixes :
       CacheInvalidatePrefix(prefix)
       => /\ DOMAIN cache' = {k \in DOMAIN cache : ~HasPrefix(k, prefix)}
          /\ \A k \in DOMAIN cache' : cache'[k] = cache[k]
          /\ \A k \in DOMAIN cache :
               HasPrefix(k, prefix) => getCached(cache', k).data = 0]_vars

\* C16 witness: an invalidation has just removed the key under "project-"
\* and kept the detail-view key and the key "pro".
ProjectKeysRemoved ==
  /\ lastEvent = "removed"
  /\ DOMAIN cache = {DetailKey(1), <<"p", "r", "o">>}

\* C17: the prompt resolves with the action refresh only out of the list
\* view; the result then carries no project ids whatever the selection, and
\* at that moment the cache holds no key under "project-" or "detail-view:".
RefreshFromListClearsCache ==
  [][(settled = "pending" /\ settled' = "resolved" /\ result'.action = "refresh")
     => /\ ~isDetailViewActive /\ ~isSettingsMenuActive
        /\ result'.projectIds = {}
        /\ \A k \in DOMAIN cache' :
             ~HasPrefix(k, ProjectPrefix) /\ ~HasPrefix(k, CACHE_KEY_DETAIL_VIEW)]_vars

\* C17 witness: Ctrl+R has just resolved the prompt with a project selected
\* and cached detail data dropped.
RefreshedWithSelection ==
  /\ lastEvent = "cleared"
  /\ rounds = 1
  /\ settled = "resolved"
  /\ result.action = "refresh"
  /\ selected # {}
  /\ cache = EmptyCache

\* C18: the cache returns no detail data of a fetch started before the last
\* manual refresh: what a read of a detail key returns was fetched by the
\* invocation on screen, every earlier invocation having ended by a refresh.
NoStaleDetailAfterRefresh ==
  \A id \in Ids :
    LET data == getCached(cache, DetailKey(id)).data
    IN data = 0 \/ promptOf(data) >= rounds

\* C19: once the prompt has resolved with no action, projectsCommand waits
\* for the deployment fetches already started and leaves its loop: the prompt
\* is not shown again, no project is deleted, the scope does not change, no
\* confirmation or team prompt opens and no fetch is started.
CancelEndsLoop ==
  [][(settled = "resolved" /\ result.action = "null")
     => /\ settled' = settled /\ result' = result
        /\ rounds' = rounds
        /\ deleteCalls' = deleteCalls /\ remote' = remote
        /\ scopeTeamId' = scopeTeamId
        /\ listedProjects' = listedProjects
        /\ fetchPending' \subseteq fetchPending
        /\ pc' \in {"prompt", "exited"}
        /\ PromptReturns => pc' = "exited"]_vars

\* C19 witness: the loop has been left after Ctrl+C in the second
\* invocation, with a project selected.
LoopLeftOnCancel ==
  /\ pc = "exited"
  /\ settled = "resolved"
  /\ result.action = "null"
  /\ rounds = 2
  /\ selected # {}

\* C20: in the list view the displayed items are a function of the query:
\* typing one more character and backspacing to the query leaves the items
\* that were displayed, and filtering again with the same non-empty query
\* gives the items of the first filtering.
ItemsDependOnQueryOnly ==
  (/\ listening /\ ~threw
   /\ ~isDetailViewActive /\ ~isSettingsMenuActive
   /\ escapeSequence = <<>>
   /\ Len(searchQuery) < MaxQuery)
    => /\ \A c \in {"a", "B", " "} :
            handleData(handleData(S, <<c>>), <<"DEL">>).projects = projects
       /\ searchQuery # <<>>
            => applySearchFilter(applySearchFilter(S)).projects
                 = applySearchFilter(S).projects

EditKeys == {<<"y">>, <<"n">>, <<"a">>, <<"DEL">>, <<"BS">>}

\* a typed character or a backspace changes the query while the cursor is
\* not before the first row
QueryEdited ==
  /\ listening /\ ~threw
  /\ ~isDetailViewActive /\ ~isSettingsMenuActive
  /\ ~cursorReadThrows(S)
  /\ \E data \in EditKeys : StdinData(data)
  /\ searchQuery' # searchQuery

Inert(t) ==
  \A data \in {<<"CR">>, <<"LF">>, CSI("C"), CSI("A"), CSI("B"), <<"SOH">>} :
    LET u == handleData(t, data)
    IN ~u.threw /\ u.selected = t.selected /\ ~u.isDetailViewActive

\* C21 as stated: after a typed character or a backspace has changed the
\* query, the cursor is on the row of the id it was on when that id is still
\* displayed, else the former cursorIndex clamped into the new list; on an
\* empty list no key reads a row.
CursorClampedAfterFilter ==
  /\ [][QueryEdited =>
          LET id == currentProjectId(S)
              newIndex == findIndex(projects', id)
          IN IF id # 0 /\ newIndex # -1 THEN cursorIndex' = newIndex
             ELSE cursorIndex' = Max(0, Min(cursorIndex, Len(projects') - 1))]_vars
  /\ []((listening /\ ~threw /\ ~isDetailViewActive /\ ~isSettingsMenuActive
          /\ projects = <<>>) => Inert(S))

\* C21: after a typed character or a backspace has changed the query, the
\* cursor is on the row of the id it was on when that id is still displayed,
\* else on the first row (cursorIndex 0); on an empty list no key reads a
\* row, selects or opens the detail view.
CursorAfterFilter ==
  /\ [][QueryEdited =>
          LET id == currentProjectId(S)
              newIndex == findIndex(projects', id)
          IN IF id # 0 /\ newIndex # -1 THEN cursorIndex' = newIndex
             ELSE cursorIndex' = 0]_vars
  /\ []((listening /\ ~threw /\ ~isDetailViewActive /\ ~isSettingsMenuActive
          /\ projects = <<>>) => Inert(S))

\* C21 witness: a query change has just removed the focused row, which was
\* not the first, from a list that keeps two rows or more; the cursor is on
\* the first row.
FocusLostResetsToTop ==
  /\ lastEvent = "lost"
  /\ cursorIndex = 0
  /\ Len(projects) >= 2

\* C22: the fetchDetailData calls of the invocation on screen that are
\* outstanding are for different project ids.
NoDuplicateFetch ==
  \A f, g \in fetches :
    (f.prompt = rounds /\ g.prompt = rounds /\ f.id = g.id) => f = g

InDetail == listening /\ ~threw /\ isDetailViewActive /\ escapeSequence = <<>>

\* C23: in the detail view a shift-tab (ESC [ Z) moves the highlighted action
\* back by one modulo 4 and leaves the view open, so that a tab followed by a
\* shift-tab restores the highlighted action.
ShiftTabRetreats ==
  InDetail =>
    LET back == handleData(S, CSI("Z"))
        both == handleData(handleData(S, <<"TAB">>), CSI("Z"))
    IN /\ back.isDetailViewActive
       /\ back.detailViewActionIndex = (detailViewActionIndex + 3) % 4
       /\ both.detailViewActionIndex = detailViewActionIndex

\* C24: in the detail view a tab moves the highlighted action forward by one
\* modulo 4 and leaves the view open; the highlighted action is within 0..3
\* in every state and is 0 whenever the detail view has just been entered.
TabAdvances ==
  /\ [](detailViewActionIndex \in 0..3)
  /\ [][(listening /\ ~threw /\ isDetailViewActive /\ StdinData(<<"TAB">>))
        => /\ detailViewActionIndex' = (detailViewActionIndex + 1) % 4
           /\ isDetailViewActive'
           /\ detailViewProjectId' = detailViewProjectId]_vars
  /\ [][(~isDetailViewActive /\ isDetailViewActive')
        => detailViewActionIndex' = 0]_vars

\* C24 witness: three tabs have brought the highlighted action of the detail
\* view to the last one.
LastActionHighlighted ==
  /\ isDetailViewActive
  /\ detailViewProjectId # 0
  /\ detailViewActionIndex = 3
  /\ ~threw

\* inputs the detail view has no use for: delete, refresh, settings,
\* invert-all, backspace, printable characters and the other arrows
OtherKeysInDetail ==
  {<<"EOT">>, <<"DC2">>, <<"DC3">>, <<"SOH">>, <<"DEL">>, <<"BS">>,
   <<"a">>, <<"1">>, <<" ">>, CSI("A"), CSI("B"), CSI("C"), CSI("H"), CSI("F")}

\* C25: in the detail view, with no escape byte buffered, an input other than
\* left-arrow, escape, tab, shift-tab, enter and Ctrl+C changes nothing: the
\* prompt stays pending and the whole state is as before.
DetailIgnoresOtherKeys ==
  InDetail => \A data \in OtherKeysInDetail : handleData(S, data) = S

InListView ==
  /\ listening /\ ~threw
  /\ ~isDetailViewActive /\ ~isSettingsMenuActive
  /\ escapeSequence = <<>>

Visible(cur, start) == start <= cur /\ cur < start + pageSize

\* C26: in the list view with the cursor on a row of the visible page, a
\* down-arrow puts the cursor one row further, the last row at most, and an
\* up-arrow one row back, the first row at least; the page start stays when
\* the new cursor row is on the page and moves otherwise, and the cursor row
\* is on the page afterwards.
ArrowsMoveByOne ==
  [][(InListView /\ CursorOnRow /\ Visible(cursorIndex, startIndex))
     => /\ StdinData(CSI("B"))
             => /\ cursorIndex' = Min(Len(projects) - 1, cursorIndex + 1)
                /\ Visible(cursorIndex', startIndex) => startIndex' = startIndex
                /\ Visible(cursorIndex', startIndex')
        /\ StdinData(CSI("A"))
             => /\ cursorIndex' = Max(0, cursorIndex - 1)
                /\ Visible(cursorIndex', startIndex) => startIndex' = startIndex
                /\ Visible(cursorIndex', startIndex')]_vars

\* C26 witness: a down-arrow from the last row of the first page has just
\* put the cursor on the next row and moved the page start to it.
ScrolledToNextPage ==
  /\ lastEvent = "scrolled"
  /\ searchQuery = <<>>
  /\ Len(projects) = NumIds
  /\ cursorIndex = pageSize
  /\ startIndex = Min(NumIds - pageSize, pageSize)
  /\ ~threw

\* ------------------------------------------------------------------ open
\* the prompt as the orchestrator calls it, with the scope slug, and as a
\* caller without one calls it
InitOpen ==
  /\ allProjects = [i \in 1..NumIds |-> Fresh(i, NameOf(i))]
  /\ initialProjects = [i \in 1..NumIds |-> Option(allProjects[i])]
  /\ wasRawMode = FALSE
  /\ fetchDetailData = FALSE
  /\ scopeSlug \in {<<>>, Str("me")}
  /\ InitController
  /\ InitOrchestrator

\* keys that select, move, enter and leave the detail view, and act in it
OpenKeys == {<<"CR">>, CSI("B"), CSI("C"), CSI("D"), <<"TAB">>}

NextOpen ==
  \E data \in OpenKeys :
    /\ StdinData(data)
    /\ lastEvent' = (IF handleData(S, data).opened # opened /\ listening
                     THEN "opened" ELSE "data")
    /\ UNCHANGED orchVars

\* the detail view and its actions
SpecOpen == InitOpen /\ [][NextOpen]_vars

\* the page of an action of a project: scope, name of the backing record and
\* the action's suffix
ActionUrl(id, index) ==
  Str("https://vercel.com/") \o scopeSlug \o <<"/">>
    \o allProjects[CHOOSE k \in 1..Len(allProjects) : allProjects[k].id = id].name
    \o <<Str(""), Str("/settings"), Str("/deployments"), Str("/logs")>>[index + 1]

\* C27: Enter in the detail view of a prompt that was given the scope slug
\* hands exactly one url to open(), scope/project-name followed by "",
\* "/settings", "/deployments" or "/logs" for the highlighted action 0..3;
\* the prompt stays pending and listening, and the view, its target, the
\* highlighted action, the selection, the cursor and the query are as before.
EnterOpensActionPage ==
  [][(listening /\ ~threw /\ isDetailViewActive /\ scopeSlug # <<>>
        /\ StdinData(<<"CR">>))
     => /\ opened' = Append(opened, ActionUrl(detailViewProjectId, detailViewActionIndex))
        /\ settled = "pending" /\ settled' = "pending" /\ listening'
        /\ UNCHANGED <<isDetailViewActive, isSettingsMenuActive, detailViewProjectId,
                       detailViewActionIndex, selected, cursorIndex, searchQuery>>]_vars

\* C27 witness: Enter on the last action of the detail view, with a project
\* selected, has just handed the logs page of the viewed project to open().
LogsPageOpened ==
  /\ lastEvent = "opened"
  /\ isDetailViewActive
  /\ detailViewActionIndex = 3
  /\ selected # {}
  /\ opened = <<ActionUrl(detailViewProjectId, 3)>>
  /\ SubSeq(opened[1], Len(opened[1]) - 4, Len(opened[1])) = Str("/logs")
  /\ settled = "pending"

InSettings == listening /\ ~threw /\ isSettingsMenuActive

\* inputs the settings menu has no use for: delete, refresh, settings,
\* invert-all, backspace, enter, tab, printable characters and the arrows
OtherKeysInSettings ==
  {<<"EOT">>, <<"DC2">>, <<"DC3">>, <<"SOH">>, <<"DEL">>, <<"BS">>, <<"CR">>,
   <<"LF">>, <<"TAB">>, <<"a">>, <<"2">>, <<" ">>, <<"[">>, CSI("A"), CSI("B"),
   CSI("C"), CSI("D"), CSI("H"), CSI("F"), CSI("Z")}

\* C28: in the settings menu the change-team key "1" resolves the prompt with
\* no project ids and the action change-team whatever is selected, and an
\* input other than escape, "1" and Ctrl+C leaves everything as it was (the
\* key decoder's buffer of a pending escape byte aside): no search edit, no
\* selection change, no navigation, no resolution.
SettingsChangeTeamOnly ==
  InSettings =>
    /\ handleData(S, <<"1">>).settled = "resolved"
    /\ handleData(S, <<"1">>).result =
         [projectIds |-> {}, action |-> "change-team", error |-> "none"]
    /\ ~handleData(S, <<"1">>).listening
    /\ \A data \in OtherKeysInSettings :
         [handleData(S, data) EXCEPT !.escapeSequence = <<>>]
           = [S EXCEPT !.escapeSequence = <<>>]

\* C28 witness: the prompt has resolved with change-team and no ids from the
\* settings menu while a project was selected.
TeamChangeWithSelection ==
  /\ settled = "resolved"
  /\ result = [projectIds |-> {}, action |-> "change-team", error |-> "none"]
  /\ isSettingsMenuActive
  /\ selected # {}
  /\ ~listening

\* C29: the detail view and the settings menu are never both open, so the
\* prompt shows exactly one of the list, the detail view and the settings
\* menu; and the detail view has a target project exactly when it is open.
OneViewAtATime ==
  /\ ~(isDetailViewActive /\ isSettingsMenuActive)
  /\ isDetailViewActive <=> detailViewProjectId # 0

\* C29 witness: the detail view of the second project is open and drawn,
\* with its target set and the settings menu closed.
DetailViewAlone ==
  /\ isDetailViewActive
  /\ ~isSettingsMenuActive
  /\ detailViewProjectId = 2
  /\ lastViewState = "detail"
  /\ listening /\ ~threw

\* ------------------------------------------------------------------ prefetch
\* the prompt with fetchDetailData given
InitPrefetch ==
  /\ allProjects = [i \in 1..NumIds |-> Fresh(i, NameOf(i))]
  /\ initialProjects = [i \in 1..NumIds |-> Option(allProjects[i])]
  /\ wasRawMode = FALSE
  /\ fetchDetailData = TRUE
  /\ scopeSlug = <<>>
  /\ InitOrchestrator
  /\ InitController

\* keys that scroll and filter the list
PrefetchKeys == {CSI("B"), CSI("A"), <<"a">>, <<"DEL">>}

\* the visible page holds other projects after a step than before it
PageChanged == visibleProjectIds(S)' # visibleProjectIds(S)

NextPrefetch ==
  \/ \E data \in PrefetchKeys :
       /\ StdinData(data)
       /\ lastEvent' = (IF PageChanged THEN "page" ELSE "data")
       /\ UNCHANGED orchVars
  \/ \E newProjects \in UpdateLists :
       /\ UpdateCallback(newProjects)
       /\ lastEvent' = (IF PageChanged THEN "page" ELSE "update")
       /\ UNCHANGED orchVars
  \/ \E f \in fetches : FetchSettled(f, TRUE) /\ lastEvent' = "fetched" /\ UNCHANGED orchVars

\* the list view with detail fetches that succeed
SpecPrefetch == InitPrefetch /\ [][NextPrefetch]_vars

\* getCached(cacheKey) would answer with data
Cached(id) ==
  /\ DetailKey(id) \in DOMAIN cache
  /\ now <= cache[DetailKey(id)].expiresAt
  /\ cache[DetailKey(id)].data # 0

InFlight(id) == \E f \in fetches : f.id = id /\ f.prompt = rounds

\* C30: with fetchDetailData given and fetches that succeed, after every
\* step of the list view that changes the visible page (a scroll, a filter
\* edit, an applied update) every visible project is cached or has a fetch
\* in flight.
VisiblePageCovered ==
  [][(listening /\ ~threw /\ ~threw' /\ fetchDetailData
        /\ ~isDetailViewActive /\ ~isSettingsMenuActive /\ PageChanged)
     => \A id \in visibleProjectIds(S)' : Cached(id)' \/ InFlight(id)']_vars

\* ------------------------------------------------------------------ fetch
\* keys that scroll the list and enter and leave the detail view
FetchKeys == {CSI("B"), CSI("C"), CSI("D")}

NextFetch ==
  \/ \E data \in FetchKeys :
       StdinData(data) /\ lastEvent' = "data" /\ UNCHANGED orchVars
  \/ \E f \in fetches : FetchSettled(f, TRUE) /\ lastEvent' = "fetched"
  \/ \E f \in fetches :
       /\ FetchSettled(f, FALSE)
       /\ lastEvent' = (IF f.kind = "detail" THEN "detail-failed" ELSE "failed")

\* the list and detail views with detail fetches that succeed or fail
SpecFetch == InitPrefetch /\ [][NextFetch]_vars

\* C31: a prefetch that fails leaves the promise, the cache and the whole
\* controller state as they were, its bookkeeping aside; a prefetch that
\* settles, either way, takes its id out of the in-flight set; and the
\* in-flight set is empty whenever no prefetch of the prompt is outstanding.
PrefetchFailureSilent ==
  /\ [][\A f \in fetches :
          (f.kind = "prefetch" /\ f.prompt = rounds /\ FetchSettled(f, FALSE))
            => /\ cache' = cache /\ settled' = settled /\ result' = result
               /\ S' = [S EXCEPT !.fetches = @ \ {f},
                                  !.prefetchInFlight = @ \ {f.id}]]_vars
  /\ [][\A f \in fetches : \A ok \in BOOLEAN :
          (f.kind = "prefetch" /\ f.prompt = rounds /\ FetchSettled(f, ok))
            => /\ f.id \in prefetchInFlight
               /\ prefetchInFlight' = prefetchInFlight \ {f.id}]_vars
  /\ []((~\E f \in fetches : f.kind = "prefetch" /\ f.prompt = rounds)
          => prefetchInFlight = {})

\* C31 witness: every prefetch of the prompt has settled, the last one by
\* failing; the in-flight set is empty and the failed project is not cached.
PrefetchesSettledOneFailed ==
  /\ lastEvent = "failed"
  /\ fetches = {}
  /\ prefetchInFlight = {}
  /\ \E id \in Ids : DetailKey(id) \notin DOMAIN cache
  /\ ~isDetailViewActive /\ detailViewData = NoDetail
  /\ settled = "pending"

\* C32: when the fetch started on entering the detail view fails while its
\* project is the one viewed, the detail data becomes empty and not loading,
\* the detail view stays open on the same project, the promise stays
\* pending and no fetch is started.
DetailFailureShowsEmpty ==
  [][\A f \in fetches :
       (f.kind = "detail" /\ f.prompt = rounds /\ isDetailViewActive
          /\ detailViewProjectId = f.id /\ FetchSettled(f, FALSE))
         => /\ detailViewData' = DetailLoaded(0)
            /\ ~detailViewData'.loading
            /\ isDetailViewActive' /\ detailViewProjectId' = f.id
            /\ settled = "pending" /\ settled' = "pending"
            /\ fetches' = fetches \ {f}
            /\ UNCHANGED <<prefetchInFlight, cache, detailViewActionIndex, selected>>]_vars

\* C32 witness: the only fetch of the viewed project has just failed; the
\* detail view is open on it with empty data, not loading.
ViewedDetailFailed ==
  /\ lastEvent = "detail-failed"
  /\ isDetailViewActive
  /\ detailViewProjectId # 0
  /\ detailViewData = DetailLoaded(0)
  /\ ~\E f \in fetches : f.id = detailViewProjectId
  /\ DetailKey(detailViewProjectId) \notin DOMAIN cache
  /\ settled = "pending"

\* C33: whenever the detail view is open and shows loaded data, the data is
\* that of the viewed project; and while the list is shown no detail data is
\* held: a fetch that completes after the user has left its project neither
\* overwrites what another project's view shows nor fills the detail state
\* of the list view.
DetailDataOfTarget ==
  /\ (isDetailViewActive /\ detailViewData.present /\ ~detailViewData.loading
        /\ detailViewData.data # 0)
       => projectOf(detailViewData.data) = detailViewProjectId
  /\ ~isDetailViewActive => detailViewData = NoDetail

\* C34: once the prompt has resolved, a call of the update callback and the
\* completion of a detail fetch of that prompt leave every variable of the
\* controller as it was (so nothing is drawn either).
NoChangeAfterResolve ==
  [][(settled = "resolved" /\ ~threw
        /\ (\/ \E id \in Ids : DeploymentFetched(id)
            \/ \E newProjects \in UpdateLists : UpdateCallback(newProjects)
            \/ \E f \in fetches : \E ok \in BOOLEAN :
                 f.prompt = rounds /\ FetchSettled(f, ok)))
     => [S' EXCEPT !.fetches = {}, !.cache = EmptyCache, !.prefetchInFlight = {}]
          = [S EXCEPT !.fetches = {}, !.cache = EmptyCache, !.prefetchInFlight = {}]]_vars

\* C35: in every reachable state the page start is a row of the list, or 0
\* when the list is empty: 0 <= startIndex <= max(0, items.length - 1), also
\* after Home or End on a list shorter than one page.
PageStartInRange ==
  0 <= startIndex /\ startIndex <= Max(0, Len(projects) - 1)

\* ------------------------------------------------------------------ clear
\* keys that move, select, edit the search and clear it
ClearKeys == {<<"a">>, <<"DEL">>, <<"ESC">>, CSI("D"), CSI("B"), <<"CR">>}

\* the list the orchestrator hands to the update callback once the
\* deployment fetches have answered: every project, in the same order
LoadedList == [k \in 1..NumIds |-> Option(Loaded(k))]

NextClear ==
  \/ \E data \in ClearKeys :
       StdinData(data) /\ UNCHANGED lastEvent /\ UNCHANGED orchVars
  \/ /\ UpdateCallback(LoadedList)
     /\ lastEvent' = (IF searchQuery = <<>> THEN "applied" ELSE lastEvent)
     /\ UNCHANGED orchVars

\* the search edited and cleared around one update list
SpecClear == Init /\ [][NextClear]_vars

\* C36: once the update callback has applied a list, the list shown
\* whenever no search query is set, in particular after the filter is
\* cleared by left-arrow, escape or backspace, is that list and not the
\* older initial one.
ClearShowsLatestList ==
  (lastEvent = "applied" /\ searchQuery = <<>> /\ ~threw) => projects = LoadedList

\* C37: the selection changes only on an Enter or an invert-all handled by
\* the list view; search edits, clearing the filter, moving the cursor and
\* updates leave it alone. So at any time a delete from the list view, no
\* escape sequence being half read, returns exactly the selection, the ids
\* no longer displayed included.
SelectionChangesOnlyBySelecting ==
  /\ [][selected' # selected
          => /\ listening /\ ~isDetailViewActive /\ ~isSettingsMenuActive
             /\ \/ StdinData(<<"CR">>) \/ StdinData(<<"LF">>) \/ StdinData(<<"SOH">>)]_vars
  /\ []((InListView /\ selected # {})
          => /\ handleData(S, <<"EOT">>).settled = "resolved"
             /\ handleData(S, <<"EOT">>).result.projectIds = selected
             /\ handleData(S, <<"EOT">>).result.action = "delete")

\* C37 witness: a selected project has been filtered out of the displayed
\* list by the search and is still selected.
SelectedButFilteredOut ==
  /\ listening /\ ~threw
  /\ searchQuery # <<>>
  /\ projects # <<>>
  /\ \E id \in selected : findIndex(projects, id) = -1

\* ------------------------------------------------------------------ blank
\* keys that type a blank and a letter, erase and move
BlankKeys == {<<" ">>, <<"a">>, <<"DEL">>, CSI("B")}

\* lists handed to the update callback: the loaded list, the reordered list
\* and the empty list
BlankUpdates == {LoadedList} \cup FewUpdates

NextBlank ==
  \/ \E data \in BlankKeys :
       StdinData(data) /\ lastEvent' = "data" /\ UNCHANGED orchVars
  \/ \E newProjects \in BlankUpdates :
       UpdateCallback(newProjects) /\ lastEvent' = "update" /\ UNCHANGED orchVars

\* the search query with blanks, under updates
SpecBlank == Init /\ [][NextBlank]_vars

\* C38: whenever the list displayed is the unfiltered baseline, the query
\* being empty once trimmed or no backing records having been given, a call
\* of the update callback is applied: the list displayed afterwards is the
\* list it was called with.
UpdateAppliedOnBaseline ==
  [][\A newProjects \in BlankUpdates :
       (~threw /\ (trim(searchQuery) = <<>> \/ Len(allProjects) = 0)
          /\ UpdateCallback(newProjects))
         => projects' = newProjects]_vars

====
